---- MODULE Spec2Model ----
(***************************************************************************)
(* Generation-orchestration engine of the Workspace page: the concurrency  *)
(* limiter, the group sequencer with its bounded retry loop, the review    *)
(* pass, cooperative cancellation, the video poll loop and the auto-detect *)
(* run of the character and scene settings.                                *)
(*                                                                         *)
(* Scheduling model: the browser event loop.  A macrotask (a user click, a *)
(* network completion, a timer, a React render) runs only when no promise  *)
(* continuation (microtask) is pending; continuations of lanes that were   *)
(* handed a limiter slot are the microtasks of the model.                  *)
(***************************************************************************)
EXTENDS Integers, Sequences, FiniteSets, TLC

\* ------------------------------------------------------------------------
\* Bounds of the model (not program constants)
\* ------------------------------------------------------------------------
MaxTasks == 1       \* video submissions the provider accepts in a behaviour of the poll flow
MaxReloads == 1     \* page loads in a behaviour of the poll flow
MaxFailingEntity == 1 \* auto-detect flow: requests fail only for entities up to this index
MaxStarts == 2      \* single-entity generations started in a behaviour of the task flow
ClockStep == 20000  \* the task flow observes Date.now() in steps of this many milliseconds
MaxClock == 320000  \* the task flow stops the clock here
MaxGroupScenes == 3 \* scenes of a project whose partition into groups is examined
MaxCacheClock == 2  \* the thumbnail cache flow observes Date.now() up to this value

\* ------------------------------------------------------------------------
\* Program constants
\* ------------------------------------------------------------------------
MainMax == 3
ReviewMax == 2
TextMax == 3
ImageMax == 2
maxRetries == 2
maxAttempts == 120
SB_TIMEOUT_MS == 240000
CHAR_IMAGE_TIMEOUT_MS == 180000
SCENE_IMAGE_TIMEOUT_MS == 300000

VARIABLES
    flow,               \* which orchestration call the user issues in this behaviour
    scenes,             \* React state `scenes` (latest value, functional updates applied)
    scenesRef,          \* scenesRef.current: `scenes` as of the last render + effect
    scenesClosure,      \* `scenes` captured by the closures of the running batch call
    sbTasks,            \* localStorage "generating-storyboard-tasks": descriptor ids
    generatingScenes,   \* React state generatingScenes
    stopStoryboardGenRef,
    isGeneratingAllStoryboards,
    sem,                \* limiter state: name -> [current, queue]
    phase,              \* position of the orchestration call
    laneScenes,         \* the groups of the current pass, one lane per group
    lanes,              \* per lane: pc, idx (position in its group), attempt
    successCount, failCount, failedIds,
    calls,              \* history: handler invocations per scene by the main sweep
    fails,              \* history: failed attempts per scene in the main sweep
    outcome,            \* history: terminal outcome per scene in the main sweep
    reviewCalls,        \* history: handler invocations per scene by the review pass
    mainMissing,        \* history: scenes without storyboard when the main sweep ended
    terminalInPass,     \* history: scenes that reached a terminal outcome in this pass
    summary,            \* the end-of-run toast
    stopVideoGenRef,
    isGeneratingVideo,
    polls,              \* the poll loops started so far (pollVideoTask closures)
    videoTasks,         \* provider side: task id -> the provider that accepted it
    submits,            \* single-scene generateVideoForScene calls in flight
    reloads,            \* page loads of the project so far
    characters,         \* React state `characters` of the Workspace page
    charactersRef,      \* charactersRef.current: `characters` as of the last render
    sceneSettings,      \* React state `sceneSettings`
    sceneSettingsRef,   \* sceneSettingsRef.current
    autoDetectAbortRef,
    isAutoDetectingAll,
    adTasks,            \* localStorage "generating-tasks": [id, type, startedAt]
    now,                \* Date.now(), in milliseconds since the project was opened
    generatingIds,      \* the four generating sets of the settings panel: <<entity, stage>>
    entityCalls,        \* single-entity generation requests of the settings panel in flight
    orphanTimer,        \* the setTimeout(100) of the orphan cleanup is pending
    sbSingles,          \* single-scene storyboard requests in flight
    starts,             \* history: single-entity generations started so far
    restored,           \* history: the descriptors whose indicators the last page load restored
    isGeneratingAllClosure, \* isGeneratingAllStoryboards as the closures of the batch call see it
    errorToasts,        \* per-entity error notifications raised so far
    prevStoryboardSent, \* per scene: prevStoryboardUrl of its latest storyboard request
    thumbs              \* IndexedDB store "thumbnails": key -> usedAt

vars == <<flow, scenes, scenesRef, scenesClosure, sbTasks, generatingScenes,
          stopStoryboardGenRef, isGeneratingAllStoryboards, sem, phase, laneScenes,
          lanes, successCount, failCount, failedIds, calls, fails, outcome,
          reviewCalls, mainMissing, terminalInPass, summary, stopVideoGenRef,
          isGeneratingVideo, polls, videoTasks, submits, reloads, characters,
          charactersRef, sceneSettings, sceneSettingsRef, autoDetectAbortRef,
          isAutoDetectingAll, adTasks, now, generatingIds, entityCalls, orphanTimer,
          sbSingles, starts, restored, isGeneratingAllClosure, errorToasts,
          prevStoryboardSent, thumbs>>

\* ------------------------------------------------------------------------
\* The scene collection is an array of Scene records; a scene's id is its
\* position.  sceneName is a string, modelled as a sequence of characters so
\* that trim() is computed and not assumed.
\* ------------------------------------------------------------------------
SceneIds == DOMAIN scenes

SceneList == [i \in 1..Len(scenes) |-> i]

NewScene(name) ==
    [sceneName |-> name, storyboardUrl |-> 0, storyboardHistory |-> <<>>,
     videoUrl |-> 0, videoTaskId |-> 0, videoStatus |-> "unset", videoHistory |-> <<>>]

\* The projects the behaviours start from: four scenes in four groups (two of
\* them with an empty or blank name), and three scenes of which the first two
\* share a location up to surrounding blanks.
ProjectFourGroups ==
    <<NewScene(<<>>), NewScene(<<"c">>), NewScene(<<" ">>), NewScene(<<"d">>)>>

ProjectSharedLocation ==
    <<NewScene(<<"a">>), NewScene(<<"a", " ">>), NewScene(<<" ", "b">>)>>

Projects == {ProjectFourGroups, ProjectSharedLocation}

\* A saved project whose scene already has a video and an older one in its
\* history.
ProjectWithVideo ==
    <<[NewScene(<<"b">>) EXCEPT !.videoUrl = 1, !.videoStatus = "completed",
                                !.videoHistory = <<2>>]>>

\* A saved project of two scenes that both have a video.
ProjectTwoVideos ==
    <<[NewScene(<<"b">>) EXCEPT !.videoUrl = 1, !.videoStatus = "completed"],
      [NewScene(<<"c">>) EXCEPT !.videoUrl = 3, !.videoStatus = "completed"]>>

RECURSIVE TrimStart(_)
TrimStart(s) == IF s = <<>> THEN s
                ELSE IF Head(s) = " " THEN TrimStart(Tail(s)) ELSE s

RECURSIVE TrimEnd(_)
TrimEnd(s) == IF s = <<>> THEN s
              ELSE IF s[Len(s)] = " " THEN TrimEnd(SubSeq(s, 1, Len(s) - 1)) ELSE s

Trim(s) == TrimEnd(TrimStart(s))

\* Faulty variant: the surrounding blanks of the name are part of the key.
GroupKeyUntrimmed(coll, i) ==
    LET t == coll[i].sceneName
    IN IF Trim(t) = <<>> THEN [solo |-> i, name |-> <<>>] ELSE [solo |-> 0, name |-> t]

\* key = (scene.sceneName || "").trim() || `__solo_${scene.id}`
GroupKey(coll, i) ==
    LET t == Trim(coll[i].sceneName)
    IN IF t = <<>> THEN [solo |-> i, name |-> <<>>] ELSE [solo |-> 0, name |-> t]

\* The Map of groups in insertion order, built from a list of scene ids.
RECURSIVE KeysInOrder(_, _, _)
KeysInOrder(coll, list, acc) ==
    IF list = <<>> THEN acc
    ELSE LET k == GroupKey(coll, Head(list))
         IN KeysInOrder(coll, Tail(list),
                        IF \E j \in 1..Len(acc) : acc[j] = k THEN acc ELSE Append(acc, k))

GroupsOf(coll, list) ==
    LET keys == KeysInOrder(coll, list, <<>>)
    IN [g \in 1..Len(keys) |-> SelectSeq(list, LAMBDA s : GroupKey(coll, s) = keys[g])]

\* ------------------------------------------------------------------------
\* Concurrency limiter
\* ------------------------------------------------------------------------
SemNames == {"main", "review", "text", "image"}

\* running < 3 in the inline pairs, createSemaphore(2) for the review passes,
\* textSem = createSemaphore(3) and imageSem = createSemaphore(2)
SemMax(name) ==
    CASE name = "main" -> MainMax
      [] name = "review" -> ReviewMax
      [] name = "text" -> TextMax
      [] name = "image" -> ImageMax

EmptySem == [n \in SemNames |-> [current |-> 0, queue |-> <<>>]]

\* A state of limiter + lanes; acquire and release act on it together because
\* release() runs the queued callback of the first waiter synchronously.
\* Faulty variant: admits a holder when the limiter is already full.
AcquireOffByOne(st, name, l) ==
    IF st.sem[name].current <= SemMax(name)
    THEN [sem |-> [st.sem EXCEPT ![name].current = @ + 1],
          lanes |-> [st.lanes EXCEPT ![l].pc = "acquired"]]
    ELSE [sem |-> [st.sem EXCEPT ![name].queue = Append(@, l)],
          lanes |-> [st.lanes EXCEPT ![l].pc = "waiting"]]

Acquire(st, name, l) ==
    IF st.sem[name].current < SemMax(name)
    THEN [sem |-> [st.sem EXCEPT ![name].current = @ + 1],
          lanes |-> [st.lanes EXCEPT ![l].pc = "acquired"]]
    ELSE [sem |-> [st.sem EXCEPT ![name].queue = Append(@, l)],
          lanes |-> [st.lanes EXCEPT ![l].pc = "waiting"]]

\* Faulty variant: the caller suspended last is resumed first.
ReleaseResumesLast(st, name) ==
    LET q == st.sem[name].queue
        c == st.sem[name].current - 1
    IN IF Len(q) > 0
       THEN [sem |-> [st.sem EXCEPT ![name] = [current |-> c + 1,
                                               queue |-> SubSeq(q, 1, Len(q) - 1)]],
             lanes |-> [st.lanes EXCEPT ![q[Len(q)]].pc = "acquired"]]
       ELSE [sem |-> [st.sem EXCEPT ![name].current = c],
             lanes |-> st.lanes]

\* Faulty variant: the slot is given back but the first waiter is not resumed.
ReleaseForgetsWaiter(st, name) ==
    [sem |-> [st.sem EXCEPT ![name].current = @ - 1], lanes |-> st.lanes]

Release(st, name) ==
    LET q == st.sem[name].queue
        c == st.sem[name].current - 1
    IN IF Len(q) > 0
       THEN [sem |-> [st.sem EXCEPT ![name] = [current |-> c + 1, queue |-> Tail(q)]],
             lanes |-> [st.lanes EXCEPT ![Head(q)].pc = "acquired"]]
       ELSE [sem |-> [st.sem EXCEPT ![name].current = c],
             lanes |-> st.lanes]

\* ------------------------------------------------------------------------
\* Storyboard task descriptors (localStorage) and the scene collection
\* ------------------------------------------------------------------------
SbTaskIds == {sbTasks[i].id : i \in DOMAIN sbTasks}

\* Faulty variant: the descriptor is not written.
AddSbTaskSkips(tasks, id) == tasks

AddSbTask(tasks, id) ==
    Append(SelectSeq(tasks, LAMBDA t : t.id # id), [id |-> id, startedAt |-> now])

\* Faulty variant: the descriptor is never removed.
RemoveSbTaskKeeps(tasks, id) == tasks

RemoveSbTask(tasks, id) == SelectSeq(tasks, LAMBDA t : t.id # id)

\* The catch block of handleGenerateSceneStoryboard: the error notification
\* is skipped when the handler's closure sees a batch run going on.
ErrorToast(toasts, generatingAll) == IF generatingAll THEN toasts ELSE toasts + 1

\* Faulty variant: the result of a request is dropped once a stop was requested.
MergeStoryboardUnlessStopped(prev, sceneId, imageUrl) ==
    IF stopStoryboardGenRef THEN prev
    ELSE [prev EXCEPT ![sceneId] =
            [@ EXCEPT !.storyboardUrl = imageUrl,
                      !.storyboardHistory =
                          IF prev[sceneId].storyboardUrl # 0
                          THEN Append(@, prev[sceneId].storyboardUrl) ELSE @]]

\* setScenes((prev) => prev.map(...)) of a successful generation: the new url
\* replaces the old one, which moves to the history.
MergeStoryboard(prev, sceneId, imageUrl) ==
    [prev EXCEPT ![sceneId] =
        [@ EXCEPT !.storyboardUrl = imageUrl,
                  !.storyboardHistory =
                      IF prev[sceneId].storyboardUrl # 0
                      THEN Append(@, prev[sceneId].storyboardUrl) ELSE @]]

\* The url a successful generation returns: fresh for the scene.
NewImageUrl(sceneId) == Len(scenes[sceneId].storyboardHistory) + 1 +
                        (IF scenes[sceneId].storyboardUrl # 0 THEN 1 ELSE 0)

\* sameSceneGroup = scenes.filter(s => s.sceneName?.trim() === scene.sceneName?.trim());
\* prevScene is the one before the scene in it; prevStoryboardUrl is its
\* storyboardUrl (0 when there is none).
PrevStoryboardUrl(coll, sceneId) ==
    LET sameSceneGroup == SelectSeq([i \in 1..Len(coll) |-> i],
                              LAMBDA i : Trim(coll[i].sceneName) = Trim(coll[sceneId].sceneName))
        sceneIdx == CHOOSE i \in 1..Len(sameSceneGroup) : sameSceneGroup[i] = sceneId
    IN IF sceneIdx > 1 THEN coll[sameSceneGroup[sceneIdx - 1]].storyboardUrl ELSE 0

\* The request of a generation for sceneId is sent by a handler that reads
\* coll as `scenes`: in a batch run the handler is the one of the render in
\* which the run was started, for the per-scene button it is the one of the
\* current render.
SendStoryboardRequest(sent, coll, sceneId) ==
    [sent EXCEPT ![sceneId] = PrevStoryboardUrl(coll, sceneId)]

\* ------------------------------------------------------------------------
\* Lanes
\* ------------------------------------------------------------------------
LaneIds == DOMAIN lanes

AllLanesDone == \A l \in LaneIds : lanes[l].pc = "done"

\* A promise continuation is pending: a lane was handed a slot, or every lane
\* of the pass has returned and `await Promise.all(...)` is about to resume.
MicrotaskPending ==
    \/ \E l \in LaneIds : lanes[l].pc = "acquired"
    \/ phase \in {"main", "review"} /\ AllLanesDone

NewLane == [pc |-> "done", idx |-> 1, attempt |-> 0]

\* Faulty variant: the lane also leaves when the scene before position i has
\* failed as often as it may be retried.
LaneTopHaltsAfterFailures(st, groups, stop, name, l, i) ==
    LET at == [sem |-> st.sem,
               lanes |-> [st.lanes EXCEPT ![l] = [pc |-> "done", idx |-> i, attempt |-> 0]]]
    IN IF i > Len(groups[l]) \/ stop \/ (i > 1 /\ fails[groups[l][i - 1]] >= maxRetries)
       THEN at ELSE Acquire(at, name, l)

\* Top of the for-loop of a lane at position i of its group: leave when the
\* group is finished or the stop flag is set, otherwise ask for a slot.
LaneTop(st, groups, stop, name, l, i) ==
    LET at == [sem |-> st.sem,
               lanes |-> [st.lanes EXCEPT ![l] = [pc |-> "done", idx |-> i, attempt |-> 0]]]
    IN IF i > Len(groups[l]) \/ stop THEN at ELSE Acquire(at, name, l)

\* groups.map(processGroup): every lane runs synchronously up to its first await.
RECURSIVE LaunchLanes(_, _, _, _, _)
LaunchLanes(st, groups, stop, name, l) ==
    IF l > Len(groups) THEN st
    ELSE LaunchLanes(LaneTop(st, groups, stop, name, l, 1), groups, stop, name, l + 1)

FreshLanes(groups) == [l \in 1..Len(groups) |-> NewLane]

\* for (attempt = 0; attempt <= maxRetries; attempt++) { if (stop) break; try {...} catch {} }
\* after attempt `a` ended: is attempt a + 1 made?
\* Faulty variants: the loop ignores the stop flag; the loop makes one more
\* attempt; the loop retries as long as the job fails.
ShouldRetryForever(threw, a, stop) == threw /\ ~stop

ShouldRetryIgnoringStop(threw, a, stop) == threw /\ a + 1 <= maxRetries

ShouldRetryOnceMore(threw, a, stop) == threw /\ a <= maxRetries /\ ~stop

ShouldRetry(threw, a, stop) == threw /\ a + 1 <= maxRetries /\ ~stop

\* if (!stopRef.current) { ... if (missing.length > 0) { review pass } }
\* Faulty variant: the review pass is launched although a stop was requested.
ReviewPassRunsIgnoringStop(stop, n) == n > 0

ReviewPassRuns(stop, n) == ~stop /\ n > 0

\* Faulty variant: a new run starts with the flag its predecessor left.
ResetStopFlagKeeps(flag) == flag

\* stopStoryboardGenRef.current = false (and its video and auto-detect
\* counterparts) in the first statement of an orchestration call.
ResetStopFlag(flag) == FALSE

\* ------------------------------------------------------------------------
\* Initial state: a loaded project, nothing running
\* ------------------------------------------------------------------------
InitWorkspace ==
    /\ scenesRef = scenes
    /\ scenesClosure = scenes
    /\ sbTasks = <<>>
    /\ generatingScenes = {}
    /\ isGeneratingAllStoryboards = FALSE
    /\ sem = EmptySem
    /\ phase = "idle"
    /\ laneScenes = <<>>
    /\ lanes = <<>>
    /\ successCount = 0
    /\ failCount = 0
    /\ failedIds = {}
    /\ calls = [s \in SceneIds |-> 0]
    /\ fails = [s \in SceneIds |-> 0]
    /\ outcome = [s \in SceneIds |-> "none"]
    /\ reviewCalls = [s \in SceneIds |-> 0]
    /\ mainMissing = {}
    /\ terminalInPass = {}
    /\ summary = [shown |-> FALSE, success |-> 0, fail |-> 0, aborted |-> FALSE]
    /\ isGeneratingVideo = FALSE
    /\ polls = <<>>
    /\ videoTasks = <<>>
    /\ submits = {}
    /\ reloads = 0
    /\ charactersRef = characters
    /\ sceneSettingsRef = sceneSettings
    /\ autoDetectAbortRef = FALSE
    /\ isAutoDetectingAll = FALSE
    /\ adTasks = {}
    /\ now = 0
    /\ generatingIds = {}
    /\ entityCalls = {}
    /\ orphanTimer = FALSE
    /\ sbSingles = {}
    /\ starts = 0
    /\ restored = {}
    /\ isGeneratingAllClosure = FALSE
    /\ errorToasts = 0
    /\ prevStoryboardSent = [s \in SceneIds |-> 0]

\* No run has been stopped on this page yet, and the browser has not cached a
\* thumbnail yet.
InitCommon ==
    /\ InitWorkspace
    /\ stopStoryboardGenRef = FALSE
    /\ stopVideoGenRef = FALSE
    /\ thumbs = <<>>

NoSettings == characters = <<>> /\ sceneSettings = <<>>

InitSb == flow = "storyboard" /\ scenes \in Projects /\ NoSettings /\ InitCommon

\* ------------------------------------------------------------------------
\* handleGenerateAllStoryboards: the main sweep
\* ------------------------------------------------------------------------
histVars == <<calls, fails, outcome, reviewCalls, mainMissing, terminalInPass>>

vidVars == <<stopVideoGenRef, isGeneratingVideo, polls, videoTasks, submits, reloads>>

sbVars == <<sbTasks, generatingScenes, stopStoryboardGenRef, isGeneratingAllStoryboards>>

adVars == <<characters, charactersRef, sceneSettings, sceneSettingsRef, autoDetectAbortRef,
            isAutoDetectingAll, adTasks>>

taskVars == <<now, generatingIds, entityCalls, orphanTimer, sbSingles, starts, restored,
              thumbs>>

toastVars == <<isGeneratingAllClosure, errorToasts, prevStoryboardSent>>

\* Click on "generate all": reset the flag, partition, launch one lane per group.
SbGenerateAll ==
    /\ flow \in {"storyboard", "sbrace"}
    /\ phase = "idle"
    /\ generatingScenes = {}
    /\ stopStoryboardGenRef' = ResetStopFlag(stopStoryboardGenRef)
    /\ isGeneratingAllStoryboards' = TRUE
    /\ scenesClosure' = scenesRef
    /\ LET groups == GroupsOf(scenesClosure', SceneList)
           st == LaunchLanes([sem |-> [sem EXCEPT !["main"] = [current |-> 0, queue |-> <<>>]],
                              lanes |-> FreshLanes(groups)],
                             groups, FALSE, "main", 1)
       IN /\ laneScenes' = groups
          /\ sem' = st.sem
          /\ lanes' = st.lanes
    /\ phase' = "main"
    /\ successCount' = 0
    /\ failCount' = 0
    /\ failedIds' = {}
    /\ terminalInPass' = {}
    /\ UNCHANGED <<vidVars, flow, scenes, scenesRef, sbTasks, generatingScenes, calls, fails,
                   outcome, reviewCalls, mainMissing, summary>>
    /\ UNCHANGED adVars
    /\ UNCHANGED taskVars
    /\ isGeneratingAllClosure' = isGeneratingAllStoryboards
    /\ UNCHANGED <<errorToasts, prevStoryboardSent>>

\* A main-sweep lane resumes after `await acquire()`: it re-checks the stop flag
\* and otherwise starts attempt 0, which writes the descriptor.
SbLaneContinue(l) ==
    /\ flow \in {"storyboard", "sbrace"}
    /\ phase = "main"
    /\ l \in LaneIds
    /\ lanes[l].pc = "acquired"
    /\ LET s == laneScenes[l][lanes[l].idx]
       IN IF stopStoryboardGenRef
          THEN LET st == Release([sem |-> sem,
                                  lanes |-> [lanes EXCEPT ![l].pc = "done"]], "main")
               IN /\ sem' = st.sem
                  /\ lanes' = st.lanes
                  /\ UNCHANGED <<sbTasks, generatingScenes, calls, prevStoryboardSent>>
          ELSE /\ lanes' = [lanes EXCEPT ![l].pc = "inflight", ![l].attempt = 0]
               /\ sbTasks' = AddSbTask(sbTasks, s)
               /\ generatingScenes' = generatingScenes \cup {s}
               /\ calls' = [calls EXCEPT ![s] = @ + 1]
               /\ prevStoryboardSent' = SendStoryboardRequest(prevStoryboardSent, scenesClosure, s)
               /\ UNCHANGED sem
    /\ UNCHANGED <<vidVars, flow, scenes, scenesRef, scenesClosure, stopStoryboardGenRef,
                   isGeneratingAllStoryboards, phase, laneScenes, successCount,
                   failCount, failedIds, fails, outcome, reviewCalls, mainMissing,
                   terminalInPass, summary>>
    /\ UNCHANGED adVars
    /\ UNCHANGED taskVars
    /\ UNCHANGED <<isGeneratingAllClosure, errorToasts>>

\* The request of the attempt in flight returns (ok) or throws, times out or
\* answers without imageUrl (~ok).  The handler's finally removes the
\* descriptor; the retry loop then retries, or counts the scene, releases the
\* slot and goes on to the next scene of the group.
SbJobReturns(l, ok) ==
    /\ flow \in {"storyboard", "sbrace"}
    /\ phase = "main"
    /\ l \in LaneIds
    /\ lanes[l].pc = "inflight"
    /\ ~MicrotaskPending
    /\ LET s == laneScenes[l][lanes[l].idx]
           a == lanes[l].attempt
           retry == ShouldRetry(~ok, a, stopStoryboardGenRef)
       IN /\ scenes' = IF ok THEN MergeStoryboard(scenes, s, NewImageUrl(s)) ELSE scenes
          /\ errorToasts' = IF ok THEN errorToasts
                            ELSE ErrorToast(errorToasts, isGeneratingAllClosure)
          /\ fails' = IF ok THEN fails ELSE [fails EXCEPT ![s] = @ + 1]
          /\ IF retry
             THEN /\ lanes' = [lanes EXCEPT ![l].attempt = a + 1]
                  /\ sbTasks' = AddSbTask(RemoveSbTask(sbTasks, s), s)
                  /\ generatingScenes' = (generatingScenes \ {s}) \cup {s}
                  /\ calls' = [calls EXCEPT ![s] = @ + 1]
                  /\ UNCHANGED <<sem, successCount, failCount, failedIds, outcome,
                                 terminalInPass>>
             ELSE LET st == LaneTop(Release([sem |-> sem, lanes |-> lanes], "main"),
                                    laneScenes, stopStoryboardGenRef, "main",
                                    l, lanes[l].idx + 1)
                  IN /\ sem' = st.sem
                     /\ lanes' = st.lanes
                     /\ sbTasks' = RemoveSbTask(sbTasks, s)
                     /\ generatingScenes' = generatingScenes \ {s}
                     /\ successCount' = IF ok THEN successCount + 1 ELSE successCount
                     /\ failCount' = IF ok THEN failCount ELSE failCount + 1
                     /\ failedIds' = IF ok THEN failedIds ELSE failedIds \cup {s}
                     /\ outcome' = [outcome EXCEPT ![s] =
                                       IF ok THEN "success"
                                       ELSE IF a + 1 > maxRetries THEN "exhausted"
                                       ELSE "stopped"]
                     /\ terminalInPass' = terminalInPass \cup {s}
                     /\ UNCHANGED calls
    /\ UNCHANGED <<vidVars, flow, scenesRef, scenesClosure, stopStoryboardGenRef,
                   isGeneratingAllStoryboards, phase, laneScenes, reviewCalls,
                   mainMissing, summary>>
    /\ prevStoryboardSent' =
          IF ShouldRetry(~ok, lanes[l].attempt, stopStoryboardGenRef)
          THEN SendStoryboardRequest(prevStoryboardSent, scenesClosure,
                                     laneScenes[l][lanes[l].idx])
          ELSE prevStoryboardSent
    /\ UNCHANGED adVars
    /\ UNCHANGED taskVars
    /\ UNCHANGED isGeneratingAllClosure

\* handleStopAllStoryboards
SbStopAll ==
    /\ flow \in {"storyboard", "sbrace"}
    /\ isGeneratingAllStoryboards
    /\ ~stopStoryboardGenRef
    /\ ~MicrotaskPending
    /\ stopStoryboardGenRef' = TRUE
    /\ UNCHANGED <<vidVars, flow, scenes, scenesRef, scenesClosure, sbTasks, generatingScenes,
                   isGeneratingAllStoryboards, sem, phase, laneScenes, lanes,
                   successCount, failCount, failedIds, histVars, summary>>
    /\ UNCHANGED adVars
    /\ UNCHANGED taskVars
    /\ UNCHANGED toastVars

\* React renders and the effect refreshes scenesRef.current.
Render ==
    /\ ~MicrotaskPending
    /\ scenesRef # scenes
    /\ scenesRef' = scenes
    /\ UNCHANGED <<vidVars, flow, scenes, scenesClosure, sbTasks, generatingScenes,
                   stopStoryboardGenRef, isGeneratingAllStoryboards, sem, phase,
                   laneScenes, lanes, successCount, failCount, failedIds, histVars,
                   summary>>
    /\ UNCHANGED adVars
    /\ UNCHANGED taskVars
    /\ UNCHANGED toastVars

\* ------------------------------------------------------------------------
\* handleGenerateAllStoryboards: the review pass and the summary
\* ------------------------------------------------------------------------
\* missing = latestScenes.filter((s) => !s.storyboardUrl || failedSceneIds.has(s.id))
MissingStoryboards(latest, failed) ==
    SelectSeq(SceneList, LAMBDA s : latest[s].storyboardUrl = 0 \/ s \in failed)

EndOfRunToast ==
    [shown |-> TRUE, success |-> successCount, fail |-> failCount,
     aborted |-> stopStoryboardGenRef]

\* `await Promise.all(groupTasks)` resumes: the review pass is launched unless
\* the stop flag is set or nothing is missing in scenesRef.current.
SbMainSweepDone ==
    /\ flow \in {"storyboard", "sbrace"}
    /\ phase = "main"
    /\ AllLanesDone
    /\ mainMissing' = {s \in SceneIds : scenes[s].storyboardUrl = 0}
    /\ LET missing == MissingStoryboards(scenesRef, failedIds)
       IN IF ReviewPassRuns(stopStoryboardGenRef, Len(missing))
          THEN LET groups == GroupsOf(scenesRef, missing)
                   st == LaunchLanes([sem |-> [sem EXCEPT !["review"] =
                                                  [current |-> 0, queue |-> <<>>]],
                                      lanes |-> FreshLanes(groups)],
                                     groups, stopStoryboardGenRef, "review", 1)
               IN /\ phase' = "review"
                  /\ laneScenes' = groups
                  /\ sem' = st.sem
                  /\ lanes' = st.lanes
                  /\ terminalInPass' = {}
                  /\ UNCHANGED <<isGeneratingAllStoryboards, summary>>
          ELSE /\ phase' = "done"
               /\ isGeneratingAllStoryboards' = FALSE
               /\ summary' = EndOfRunToast
               /\ UNCHANGED <<laneScenes, sem, lanes, terminalInPass>>
    /\ UNCHANGED <<vidVars, flow, scenes, scenesRef, scenesClosure, sbTasks, generatingScenes,
                   stopStoryboardGenRef, successCount, failCount, failedIds, calls,
                   fails, outcome, reviewCalls>>
    /\ UNCHANGED adVars
    /\ UNCHANGED taskVars
    /\ UNCHANGED toastVars

\* A review lane resumes after `await reviewSem.acquire()`.
SbReviewContinue(l) ==
    /\ flow \in {"storyboard", "sbrace"}
    /\ phase = "review"
    /\ l \in LaneIds
    /\ lanes[l].pc = "acquired"
    /\ LET s == laneScenes[l][lanes[l].idx]
       IN IF stopStoryboardGenRef
          THEN LET st == Release([sem |-> sem,
                                  lanes |-> [lanes EXCEPT ![l].pc = "done"]], "review")
               IN /\ sem' = st.sem
                  /\ lanes' = st.lanes
                  /\ UNCHANGED <<sbTasks, generatingScenes, reviewCalls, prevStoryboardSent>>
          ELSE /\ lanes' = [lanes EXCEPT ![l].pc = "inflight"]
               /\ sbTasks' = AddSbTask(sbTasks, s)
               /\ generatingScenes' = generatingScenes \cup {s}
               /\ reviewCalls' = [reviewCalls EXCEPT ![s] = @ + 1]
               /\ prevStoryboardSent' = SendStoryboardRequest(prevStoryboardSent, scenesClosure, s)
               /\ UNCHANGED sem
    /\ UNCHANGED <<vidVars, flow, scenes, scenesRef, scenesClosure, stopStoryboardGenRef,
                   isGeneratingAllStoryboards, phase, laneScenes, successCount,
                   failCount, failedIds, calls, fails, outcome, mainMissing,
                   terminalInPass, summary>>
    /\ UNCHANGED adVars
    /\ UNCHANGED taskVars
    /\ UNCHANGED <<isGeneratingAllClosure, errorToasts>>

\* The single review attempt of a scene returns: counted, slot released, next scene.
SbReviewJobReturns(l, ok) ==
    /\ flow \in {"storyboard", "sbrace"}
    /\ phase = "review"
    /\ l \in LaneIds
    /\ lanes[l].pc = "inflight"
    /\ ~MicrotaskPending
    /\ LET s == laneScenes[l][lanes[l].idx]
           st == LaneTop(Release([sem |-> sem, lanes |-> lanes], "review"),
                         laneScenes, stopStoryboardGenRef, "review", l, lanes[l].idx + 1)
       IN /\ scenes' = IF ok THEN MergeStoryboard(scenes, s, NewImageUrl(s)) ELSE scenes
          /\ errorToasts' = IF ok THEN errorToasts
                            ELSE ErrorToast(errorToasts, isGeneratingAllClosure)
          /\ sbTasks' = RemoveSbTask(sbTasks, s)
          /\ generatingScenes' = generatingScenes \ {s}
          /\ successCount' = IF ok THEN successCount + 1 ELSE successCount
          /\ failCount' = IF ok THEN failCount ELSE failCount + 1
          /\ sem' = st.sem
          /\ lanes' = st.lanes
          /\ terminalInPass' = terminalInPass \cup {s}
    /\ UNCHANGED <<vidVars, flow, scenesRef, scenesClosure, stopStoryboardGenRef,
                   isGeneratingAllStoryboards, phase, laneScenes, failedIds, calls,
                   fails, outcome, reviewCalls, mainMissing, summary>>
    /\ UNCHANGED adVars
    /\ UNCHANGED taskVars
    /\ UNCHANGED <<isGeneratingAllClosure, prevStoryboardSent>>

\* `await Promise.all(reviewTasks)` resumes: the summary is shown.
SbReviewDone ==
    /\ flow \in {"storyboard", "sbrace"}
    /\ phase = "review"
    /\ AllLanesDone
    /\ phase' = "done"
    /\ isGeneratingAllStoryboards' = FALSE
    /\ summary' = EndOfRunToast
    /\ UNCHANGED <<vidVars, flow, scenes, scenesRef, scenesClosure, sbTasks, generatingScenes,
                   stopStoryboardGenRef, sem, laneScenes, lanes, successCount,
                   failCount, failedIds, histVars>>
    /\ UNCHANGED adVars
    /\ UNCHANGED taskVars
    /\ UNCHANGED toastVars

BOOL == {TRUE, FALSE}

\* ------------------------------------------------------------------------
\* generateVideoForScene and handleGenerateVideos
\* ------------------------------------------------------------------------
Providers == {"vidu", "seedance"}

IsProcessing(status) == status \in {"preparing", "queued", "processing"}

AnyProcessing(coll) == \E s \in DOMAIN coll : IsProcessing(coll[s].videoStatus)

\* setScenes(prev => ... videoStatus: "preparing")
MarkPreparing(prev, sceneId) == [prev EXCEPT ![sceneId].videoStatus = "preparing"]

\* setScenes(prev => ... videoTaskId: taskId, videoStatus: "queued")
MarkQueued(prev, sceneId, taskId) ==
    [prev EXCEPT ![sceneId].videoTaskId = taskId, ![sceneId].videoStatus = "queued"]

\* pollVideoTask: a loop with attempts = 0 whose first check is scheduled.
StartPoll(loops, sceneId, taskId, provider) ==
    Append(loops, [scene |-> sceneId, taskId |-> taskId, provider |-> provider,
                   attempts |-> 0, scheduled |-> TRUE, sawTerminal |-> FALSE,
                   timeoutToast |-> FALSE])

\* The try/catch around the submission shows a toast and does not rethrow:
\* the call returns normally whether or not the submission was accepted.
GenerateVideoThrows(accepted) == FALSE

PassSem == IF phase = "main" THEN "main" ELSE "review"

VidGenerateAll ==
    /\ flow \in {"video", "race"}
    /\ phase = "idle"
    /\ ~isGeneratingVideo
    /\ ~AnyProcessing(scenes)
    /\ stopVideoGenRef' = ResetStopFlag(stopVideoGenRef)
    /\ isGeneratingVideo' = TRUE
    /\ scenesClosure' = scenes
    /\ LET groups == GroupsOf(scenesClosure', SceneList)
           st == LaunchLanes([sem |-> [sem EXCEPT !["main"] = [current |-> 0, queue |-> <<>>]],
                              lanes |-> FreshLanes(groups)],
                             groups, FALSE, "main", 1)
       IN /\ laneScenes' = groups
          /\ sem' = st.sem
          /\ lanes' = st.lanes
    /\ phase' = "main"
    /\ successCount' = 0
    /\ failCount' = 0
    /\ failedIds' = {}
    /\ terminalInPass' = {}
    /\ UNCHANGED <<sbVars, flow, scenes, scenesRef, calls, fails, outcome, reviewCalls,
                   mainMissing, summary, polls, videoTasks, submits, reloads>>
    /\ UNCHANGED adVars
    /\ UNCHANGED taskVars
    /\ UNCHANGED toastVars

\* A lane of the main sweep or of the review pass resumes after its acquire.
VidLaneContinue(l) ==
    /\ flow \in {"video", "race"}
    /\ phase \in {"main", "review"}
    /\ l \in LaneIds
    /\ lanes[l].pc = "acquired"
    /\ LET s == laneScenes[l][lanes[l].idx]
       IN IF stopVideoGenRef
          THEN LET st == Release([sem |-> sem,
                                  lanes |-> [lanes EXCEPT ![l].pc = "done"]], PassSem)
               IN /\ sem' = st.sem
                  /\ lanes' = st.lanes
                  /\ UNCHANGED <<scenes, calls, reviewCalls>>
          ELSE /\ lanes' = [lanes EXCEPT ![l].pc = "inflight", ![l].attempt = 0]
               /\ scenes' = MarkPreparing(scenes, s)
               /\ calls' = IF phase = "main" THEN [calls EXCEPT ![s] = @ + 1] ELSE calls
               /\ reviewCalls' = IF phase = "review"
                                 THEN [reviewCalls EXCEPT ![s] = @ + 1] ELSE reviewCalls
               /\ UNCHANGED sem
    /\ UNCHANGED <<sbVars, vidVars, flow, scenesRef, scenesClosure, phase, laneScenes,
                   successCount, failCount, failedIds, fails, outcome, mainMissing,
                   terminalInPass, summary>>
    /\ UNCHANGED adVars
    /\ UNCHANGED taskVars
    /\ UNCHANGED toastVars

\* The submission of the call in flight is accepted (a task id comes back and
\* a poll loop is started) or fails (error, or no task id).
VidJobReturns(l, accepted, provider) ==
    /\ flow \in {"video", "race"}
    /\ phase \in {"main", "review"}
    /\ l \in LaneIds
    /\ lanes[l].pc = "inflight"
    /\ ~MicrotaskPending
    /\ LET s == laneScenes[l][lanes[l].idx]
           a == lanes[l].attempt
           threw == GenerateVideoThrows(accepted)
           retry == phase = "main" /\ ShouldRetry(threw, a, stopVideoGenRef)
           taskId == Len(videoTasks) + 1
           after == IF accepted THEN MarkQueued(scenes, s, taskId) ELSE scenes
       IN /\ polls' = IF accepted THEN StartPoll(polls, s, taskId, provider) ELSE polls
          /\ videoTasks' = IF accepted THEN Append(videoTasks, provider) ELSE videoTasks
          /\ fails' = IF accepted \/ phase # "main" THEN fails
                      ELSE [fails EXCEPT ![s] = @ + 1]
          /\ IF retry
             THEN /\ lanes' = [lanes EXCEPT ![l].attempt = a + 1]
                  /\ scenes' = MarkPreparing(after, s)
                  /\ calls' = [calls EXCEPT ![s] = @ + 1]
                  /\ UNCHANGED <<sem, successCount, failCount, failedIds, outcome,
                                 terminalInPass>>
             ELSE LET st == LaneTop(Release([sem |-> sem, lanes |-> lanes], PassSem),
                                    laneScenes, stopVideoGenRef, PassSem,
                                    l, lanes[l].idx + 1)
                  IN /\ sem' = st.sem
                     /\ lanes' = st.lanes
                     /\ scenes' = after
                     /\ successCount' = IF threw THEN successCount ELSE successCount + 1
                     /\ failCount' = IF threw THEN failCount + 1 ELSE failCount
                     /\ failedIds' = IF threw /\ phase = "main"
                                     THEN failedIds \cup {s} ELSE failedIds
                     /\ outcome' = IF phase # "main" THEN outcome
                                   ELSE [outcome EXCEPT ![s] =
                                            IF ~threw THEN "success"
                                            ELSE IF a + 1 > maxRetries THEN "exhausted"
                                            ELSE "stopped"]
                     /\ terminalInPass' = terminalInPass \cup {s}
                     /\ UNCHANGED calls
    /\ UNCHANGED <<sbVars, stopVideoGenRef, isGeneratingVideo, submits, reloads, flow,
                   scenesRef, scenesClosure, phase, laneScenes, reviewCalls, mainMissing,
                   summary>>
    /\ UNCHANGED adVars
    /\ UNCHANGED taskVars
    /\ UNCHANGED toastVars

\* `await Promise.all(...)` resumes after the main sweep (review pass over the
\* failed ids unless stopped or none failed) or after the review pass (summary).
VidPassDone ==
    /\ flow \in {"video", "race"}
    /\ phase \in {"main", "review"}
    /\ AllLanesDone
    /\ LET failedList == SelectSeq(SceneList, LAMBDA s : s \in failedIds)
       IN IF phase = "main" /\ ReviewPassRuns(stopVideoGenRef, Cardinality(failedIds))
          THEN LET groups == GroupsOf(scenesClosure, failedList)
                   st == LaunchLanes([sem |-> [sem EXCEPT !["review"] =
                                                  [current |-> 0, queue |-> <<>>]],
                                      lanes |-> FreshLanes(groups)],
                                     groups, stopVideoGenRef, "review", 1)
               IN /\ phase' = "review"
                  /\ laneScenes' = groups
                  /\ sem' = st.sem
                  /\ lanes' = st.lanes
                  /\ terminalInPass' = {}
                  /\ UNCHANGED <<isGeneratingVideo, summary>>
          ELSE /\ phase' = "done"
               /\ isGeneratingVideo' = FALSE
               /\ summary' = [shown |-> TRUE, success |-> successCount,
                              fail |-> failCount, aborted |-> stopVideoGenRef]
               /\ UNCHANGED <<laneScenes, sem, lanes, terminalInPass>>
    /\ UNCHANGED <<sbVars, stopVideoGenRef, polls, videoTasks, submits, reloads, flow, scenes, scenesRef,
                   scenesClosure, successCount, failCount, failedIds, calls, fails,
                   outcome, reviewCalls, mainMissing>>
    /\ UNCHANGED adVars
    /\ UNCHANGED taskVars
    /\ UNCHANGED toastVars

\* handleStopVideos
VidStop ==
    /\ flow \in {"video", "race"}
    /\ isGeneratingVideo \/ AnyProcessing(scenes)
    /\ ~stopVideoGenRef
    /\ ~MicrotaskPending
    /\ stopVideoGenRef' = TRUE
    /\ UNCHANGED <<sbVars, isGeneratingVideo, polls, videoTasks, submits, reloads, flow, scenes, scenesRef,
                   scenesClosure, sem, phase, laneScenes, lanes, successCount,
                   failCount, failedIds, histVars, summary>>
    /\ UNCHANGED adVars
    /\ UNCHANGED taskVars
    /\ UNCHANGED toastVars

InitVid == flow = "video" /\ scenes \in Projects /\ NoSettings /\ InitCommon

NextVid ==
    \/ VidGenerateAll
    \/ \E l \in LaneIds : VidLaneContinue(l)
    \/ \E l \in LaneIds, accepted \in BOOL, provider \in Providers :
          VidJobReturns(l, accepted, provider)
    \/ VidPassDone
    \/ VidStop

SpecVid == InitVid /\ [][NextVid]_vars

NextSb ==
    \/ SbGenerateAll
    \/ \E l \in LaneIds : SbLaneContinue(l)
    \/ \E l \in LaneIds, ok \in BOOL : SbJobReturns(l, ok)
    \/ SbStopAll
    \/ Render
    \/ SbMainSweepDone
    \/ \E l \in LaneIds : SbReviewContinue(l)
    \/ \E l \in LaneIds, ok \in BOOL : SbReviewJobReturns(l, ok)
    \/ SbReviewDone

SpecSb == InitSb /\ [][NextSb]_vars

\* ------------------------------------------------------------------------
\* The generate-video edge function, action "status"
\* ------------------------------------------------------------------------
NoData == [threw |-> FALSE, status |-> "", video_url |-> 0, output_video_url |-> 0,
           result_url |-> 0, url |-> 0]

\* The invocation returns an error (non-2xx answer or network failure).
InvokeError == [NoData EXCEPT !.threw = TRUE]

\* viduStatus: the provider's state is normalised; the url is creations[0]?.url.
ViduStatus(raw) ==
    [NoData EXCEPT
        !.status = IF raw.state = "success" THEN "succeeded"
                   ELSE IF raw.state = "failed" THEN "failed" ELSE "processing",
        !.video_url = IF raw.state = "success" /\ Len(raw.creations) > 0
                      THEN raw.creations[1] ELSE 0]

\* What the Vidu API can answer for task id t.
ViduAnswers(t) ==
    [state : {"created", "queueing", "processing", "success", "failed"},
     creations : {<<>>, <<10 * t + 1>>}]

\* What the Seedance API can answer for task id t; the edge function passes
\* the JSON through, and answers {status: "processing"} when its two fetches fail.
SeedanceAnswers(t) ==
    {[NoData EXCEPT !.status = st] : st \in {"queued", "in_progress", "processing",
                                             "failed", "error", ""}}
    \cup {[NoData EXCEPT !.status = "completed", !.video_url = f[1],
                         !.output_video_url = f[2], !.result_url = f[3], !.url = f[4]] :
            f \in {<<10 * t + 1, 0, 0, 0>>, <<0, 10 * t + 2, 0, 0>>, <<0, 0, 10 * t + 3, 0>>,
                   <<0, 0, 0, 10 * t + 4>>, <<0, 10 * t + 2, 0, 10 * t + 4>>, <<0, 0, 0, 0>>}}

\* The data the client receives for a status check of `loop`: isViduTask is
\* provider === "vidu"; a task asked for at the provider that did not accept
\* it is unknown there, which the Seedance path reports as "processing".
StatusData(loop) ==
    {InvokeError} \cup
    IF loop.provider = "vidu"
    THEN IF videoTasks[loop.taskId] = "vidu"
         THEN {ViduStatus(raw) : raw \in ViduAnswers(loop.taskId)}
         ELSE {}
    ELSE IF videoTasks[loop.taskId] = "seedance"
         THEN SeedanceAnswers(loop.taskId)
         ELSE {[NoData EXCEPT !.status = "processing"]}

\* generate-video, action "status": isViduTask = provider === "vidu"; every
\* other value of the hint, a missing one included, goes to Seedance.
QueriedProvider(loop) == IF loop.provider = "vidu" THEN "vidu" ELSE "seedance"

\* ------------------------------------------------------------------------
\* pollVideoTask
\* ------------------------------------------------------------------------
\* data?.video_url || data?.output?.video_url || data?.result?.url || data?.url
ExtractVideoUrl(data) ==
    IF data.video_url # 0 THEN data.video_url
    ELSE IF data.output_video_url # 0 THEN data.output_video_url
    ELSE IF data.result_url # 0 THEN data.result_url
    ELSE data.url

InSeq(sq, x) == \E j \in 1..Len(sq) : sq[j] = x

\* Faulty variant: the previous video is dropped instead of kept in the history.
CompleteVideoDropsOld(prev, sceneId, videoUrl) ==
    [prev EXCEPT ![sceneId] =
        [@ EXCEPT !.videoUrl = videoUrl, !.videoStatus = "completed", !.videoTaskId = 0]]

CompleteVideo(prev, sceneId, videoUrl) ==
    LET sc == prev[sceneId]
        history == IF sc.videoUrl # 0 /\ ~InSeq(sc.videoHistory, sc.videoUrl)
                   THEN Append(sc.videoHistory, sc.videoUrl) ELSE sc.videoHistory
    IN [prev EXCEPT ![sceneId] =
           [sc EXCEPT !.videoUrl = videoUrl, !.videoStatus = "completed",
                      !.videoTaskId = 0, !.videoHistory = history]]

FailVideo(prev, sceneId) ==
    [prev EXCEPT ![sceneId].videoStatus = "failed", ![sceneId].videoTaskId = 0]

\* status || "processing"
ShownStatus(status) == IF status = "" THEN "processing" ELSE status

IsSuccessStatus(status) == status \in {"completed", "succeeded"}

IsFailureStatus(status) == status \in {"failed", "error"}

\* if (attempts < maxAttempts) setTimeout(poll, 5000)
\* Faulty variant: one more check is scheduled at the cap.
PollAgainOffByOne(attempts) == attempts <= maxAttempts

PollAgain(attempts) == attempts < maxAttempts

\* One run of poll(): the timer of loop i fires and the status check answers.
PollTick(i, data) ==
    /\ flow \in {"poll", "race", "history"}
    /\ ~MicrotaskPending
    /\ i \in DOMAIN polls
    /\ polls[i].scheduled
    /\ data \in StatusData(polls[i])
    /\ LET loop == polls[i]
           n == loop.attempts + 1
           s == loop.scene
       IN IF data.threw
          THEN /\ polls' = [polls EXCEPT ![i].attempts = n,
                                         ![i].scheduled = PollAgain(n)]
               /\ UNCHANGED scenes
          ELSE IF IsSuccessStatus(data.status)
          THEN /\ scenes' = CompleteVideo(scenes, s, ExtractVideoUrl(data))
               /\ polls' = [polls EXCEPT ![i].attempts = n, ![i].scheduled = FALSE,
                                         ![i].sawTerminal = TRUE]
          ELSE IF IsFailureStatus(data.status)
          THEN /\ scenes' = FailVideo(scenes, s)
               /\ polls' = [polls EXCEPT ![i].attempts = n, ![i].scheduled = FALSE,
                                         ![i].sawTerminal = TRUE]
          ELSE /\ scenes' = [scenes EXCEPT ![s].videoStatus = ShownStatus(data.status)]
               /\ polls' = [polls EXCEPT ![i].attempts = n,
                                         ![i].scheduled = PollAgain(n),
                                         ![i].timeoutToast = ~PollAgain(n)]
    /\ UNCHANGED <<sbVars, stopVideoGenRef, isGeneratingVideo, videoTasks, submits,
                   reloads, flow, scenesRef, scenesClosure, sem, phase, laneScenes,
                   lanes, successCount, failCount, failedIds, histVars, summary>>
    /\ UNCHANGED adVars
    /\ UNCHANGED taskVars
    /\ UNCHANGED toastVars

\* handleRegenerateVideo: the per-scene button, disabled while the scene is
\* shown as preparing, queued or processing.
RegenerateVideo(s) ==
    /\ flow \in {"poll", "race", "history"}
    /\ ~MicrotaskPending
    /\ s \in SceneIds
    /\ ~IsProcessing(scenes[s].videoStatus)
    /\ s \notin submits
    /\ scenes' = MarkPreparing(scenes, s)
    /\ submits' = submits \cup {s}
    /\ UNCHANGED <<sbVars, stopVideoGenRef, isGeneratingVideo, polls, videoTasks,
                   reloads, flow, scenesRef, scenesClosure, sem, phase, laneScenes,
                   lanes, successCount, failCount, failedIds, histVars, summary>>
    /\ UNCHANGED adVars
    /\ UNCHANGED taskVars
    /\ UNCHANGED toastVars

\* The submission of a single-scene call is accepted or fails.
SubmitReturns(s, accepted, provider) ==
    /\ flow \in {"poll", "race", "history"}
    /\ ~MicrotaskPending
    /\ s \in submits
    /\ accepted => Len(videoTasks) < MaxTasks
    /\ submits' = submits \ {s}
    /\ LET taskId == Len(videoTasks) + 1
       IN IF accepted
          THEN /\ scenes' = MarkQueued(scenes, s, taskId)
               /\ polls' = StartPoll(polls, s, taskId, provider)
               /\ videoTasks' = Append(videoTasks, provider)
          ELSE UNCHANGED <<scenes, polls, videoTasks>>
    /\ UNCHANGED <<sbVars, stopVideoGenRef, isGeneratingVideo, reloads, flow, scenesRef,
                   scenesClosure, sem, phase, laneScenes, lanes, successCount,
                   failCount, failedIds, histVars, summary>>
    /\ UNCHANGED adVars
    /\ UNCHANGED taskVars
    /\ UNCHANGED toastVars

\* VideoGeneration.restoreFromHistory: the current video goes to the history,
\* the restored entry leaves it and becomes current; videoTaskId is kept.
WithoutUrl(sq, x) == SelectSeq(sq, LAMBDA h : h # x)

RestoredVideo(sc, entry) ==
    LET history == IF sc.videoUrl # 0 /\ ~InSeq(sc.videoHistory, sc.videoUrl)
                   THEN Append(sc.videoHistory, sc.videoUrl) ELSE sc.videoHistory
    IN [sc EXCEPT !.videoUrl = entry, !.videoStatus = "completed",
                  !.videoHistory = WithoutUrl(history, entry)]

RestoreVideo(s, j) ==
    /\ flow \in {"poll", "history"}
    /\ s \in SceneIds
    /\ j \in 1..Len(scenes[s].videoHistory)
    /\ scenes' = [scenes EXCEPT ![s] = RestoredVideo(@, scenes[s].videoHistory[j])]
    /\ UNCHANGED <<sbVars, stopVideoGenRef, isGeneratingVideo, polls, videoTasks, submits,
                   reloads, flow, scenesRef, scenesClosure, sem, phase, laneScenes,
                   lanes, successCount, failCount, failedIds, histVars, summary>>
    /\ UNCHANGED adVars
    /\ UNCHANGED taskVars
    /\ UNCHANGED toastVars

\* ------------------------------------------------------------------------
\* Workspace.init: the project is loaded again after a page reload
\* ------------------------------------------------------------------------
\* Faulty variant: a stuck status without task id is kept.
CleanSceneKeeps(sc) == sc

CleanScene(sc) ==
    IF IsProcessing(sc.videoStatus) /\ sc.videoTaskId = 0
    THEN [sc EXCEPT !.videoStatus = "unset"] ELSE sc

CleanedScenes(saved) == [s \in DOMAIN saved |-> CleanScene(saved[s])]

\* cleanedScenes.forEach: resume polling, without a provider
ShouldResume(sc) == sc.videoTaskId # 0 /\ sc.videoStatus \in {"queued", "processing"}

RECURSIVE ResumePolls(_, _, _)
ResumePolls(coll, s, loops) ==
    IF s > Len(coll) THEN loops
    ELSE ResumePolls(coll, s + 1,
                     IF ShouldResume(coll[s])
                     THEN StartPoll(loops, s, coll[s].videoTaskId, "undefined")
                     ELSE loops)

\* The page is reloaded: timers and calls in flight are gone, the saved scenes
\* are cleaned and polling is resumed.
Reload ==
    /\ flow = "poll"
    /\ reloads < MaxReloads
    /\ reloads' = reloads + 1
    /\ scenes' = CleanedScenes(scenes)
    /\ scenesRef' = scenes'
    /\ scenesClosure' = scenes'
    /\ polls' = ResumePolls(scenes', 1, <<>>)
    /\ submits' = {}
    /\ UNCHANGED <<sbVars, stopVideoGenRef, isGeneratingVideo, videoTasks, flow, sem,
                   phase, laneScenes, lanes, successCount, failCount, failedIds,
                   histVars, summary>>
    /\ UNCHANGED adVars
    /\ UNCHANGED taskVars
    /\ UNCHANGED toastVars

InitPoll == flow = "poll" /\ scenes = ProjectWithVideo /\ NoSettings /\ InitCommon

NextPoll ==
    \/ \E s \in SceneIds : RegenerateVideo(s)
    \/ \E s \in SceneIds, accepted \in BOOL, provider \in Providers :
          SubmitReturns(s, accepted, provider)
    \/ \E i \in DOMAIN polls : \E data \in StatusData(polls[i]) : PollTick(i, data)
    \/ \E s \in SceneIds : \E j \in 1..Len(scenes[s].videoHistory) : RestoreVideo(s, j)
    \/ Reload

SpecPoll == InitPoll /\ [][NextPoll]_vars

\* The poll flow on a project of two scenes.
InitPollTwo == flow = "poll" /\ scenes = ProjectTwoVideos /\ NoSettings /\ InitCommon

SpecPollTwo == InitPollTwo /\ [][NextPoll]_vars

\* ------------------------------------------------------------------------
\* A video batch run during which the user also uses the per-scene button.
\* The status checks of this flow answer with a terminal status at once.
\* ------------------------------------------------------------------------
TerminalStatusData(loop) ==
    {data \in StatusData(loop) :
        ~data.threw /\ (IsSuccessStatus(data.status) \/ IsFailureStatus(data.status))}

\* Two shots of one location, without videos.
ProjectTwoShots == <<NewScene(<<"a">>), NewScene(<<"a">>)>>

InitRace == flow = "race" /\ scenes = ProjectTwoShots /\ NoSettings /\ InitCommon

NextRace ==
    \/ VidGenerateAll
    \/ \E l \in LaneIds : VidLaneContinue(l)
    \/ \E l \in LaneIds, accepted \in BOOL, provider \in Providers :
          VidJobReturns(l, accepted, provider)
    \/ VidPassDone
    \/ \E s \in SceneIds : RegenerateVideo(s)
    \/ \E s \in SceneIds, accepted \in BOOL, provider \in Providers :
          SubmitReturns(s, accepted, provider)
    \/ \E i \in DOMAIN polls : \E data \in TerminalStatusData(polls[i]) : PollTick(i, data)

SpecRace == InitRace /\ [][NextRace]_vars

\* ------------------------------------------------------------------------
\* CharacterSettings.handleAutoDetectAll
\* ------------------------------------------------------------------------
NewSetting == [description |-> 0, imageUrl |-> 0, imageHistory |-> <<>>]

\* Entities of a run: the characters first, then the scene settings.
IsCharacter(e) == e <= Len(characters)

SettingIndex(e) == IF IsCharacter(e) THEN e ELSE e - Len(characters)

AdEntities == [e \in 1..(Len(characters) + Len(sceneSettings)) |-> e]

SettingRef(e) == IF IsCharacter(e) THEN charactersRef[e]
                 ELSE sceneSettingsRef[SettingIndex(e)]

\* if (!c.description || !c.imageUrl)
NeedsReview(setting) == setting.description = 0 \/ setting.imageUrl = 0

StageSem(stage) == IF stage = "desc" THEN "text" ELSE "image"

\* addTask / removeTask: one descriptor per entity and kind, stamped at its start.
HasTask(tasks, id, type) == \E t \in tasks : t.id = id /\ t.type = type

RemoveTask(tasks, id, type) == {t \in tasks : ~(t.id = id /\ t.type = type)}

AddTask(tasks, id, type) ==
    RemoveTask(tasks, id, type) \cup {[id |-> id, type |-> type, startedAt |-> now]}

\* updateCharacterAsync / updateSceneAsync: the partial update is applied to
\* the collection held by the ref and the result replaces the React state.
UpdateAsync(ref, id, updates) ==
    [ref EXCEPT ![id] = [f \in DOMAIN ref[id] |->
                            IF f \in DOMAIN updates THEN updates[f] ELSE ref[id][f]]]

\* The updates of a successful request: the description, or the image with
\* the previous image (as the ref shows it) pushed to the history.
DescriptionUpdates == [description |-> 1]

ImageUpdates(latestAgain) ==
    [imageUrl |-> Len(latestAgain.imageHistory) + 1 +
                  (IF latestAgain.imageUrl # 0 THEN 1 ELSE 0),
     imageHistory |-> IF latestAgain.imageUrl # 0
                      THEN Append(latestAgain.imageHistory, latestAgain.imageUrl)
                      ELSE latestAgain.imageHistory]

StageUpdates(e, stage) ==
    IF stage = "desc" THEN DescriptionUpdates ELSE ImageUpdates(SettingRef(e))

NewAdLane(stage, inReview) ==
    [pc |-> "done", stage |-> stage, attempt |-> 0, inReview |-> inReview,
     descOutcome |-> "none", imgOutcome |-> "none", attempts |-> 0, failures |-> 0]

\* Faulty variant: a lane whose description phase is exhausted goes on to
\* the image phase instead of returning.
AdReturnStartsImage(st, l) ==
    IF st.lanes[l].stage = "desc" /\ st.lanes[l].descOutcome = "exhausted"
    THEN Acquire([sem |-> st.sem,
                  lanes |-> [st.lanes EXCEPT ![l].stage = "image", ![l].attempt = 0,
                                             ![l].attempts = 0, ![l].failures = 0]],
                 "image", l)
    ELSE LET at == [sem |-> st.sem,
                    lanes |-> [st.lanes EXCEPT ![l].pc = "done", ![l].attempt = 0,
                                               ![l].attempts = 0, ![l].failures = 0]]
         IN IF st.lanes[l].inReview THEN Release(at, "review") ELSE at

\* processCharacter / processScene returns; inside the review pass its
\* wrapper's finally releases the review slot.
AdReturn(st, l) ==
    LET at == [sem |-> st.sem,
               lanes |-> [st.lanes EXCEPT ![l].pc = "done", ![l].attempt = 0,
                                          ![l].attempts = 0, ![l].failures = 0]]
    IN IF st.lanes[l].inReview THEN Release(at, "review") ELSE at

\* Top of a retry loop iteration: return when aborted, else ask for a slot.
AdLoopTop(st, l, abort) ==
    IF abort THEN AdReturn(st, l)
    ELSE Acquire(st, StageSem(st.lanes[l].stage), l)

\* A phase starts with attempt 0.
AdStartStage(st, l, stage, abort) ==
    AdLoopTop([sem |-> st.sem,
               lanes |-> [st.lanes EXCEPT ![l].stage = stage, ![l].attempt = 0,
                                          ![l].attempts = 0, ![l].failures = 0]],
              l, abort)

RECURSIVE AdLaunch(_, _, _)
AdLaunch(st, l, n) ==
    IF l > n THEN st ELSE AdLaunch(AdStartStage(st, l, "desc", FALSE), l + 1, n)

\* Review pass: every lane first asks for a review slot.
RECURSIVE AdLaunchReview(_, _, _)
AdLaunchReview(st, l, n) ==
    IF l > n THEN st ELSE AdLaunchReview(Acquire(st, "review", l), l + 1, n)

\* Click on "auto-detect all" while nothing runs.
AdDetectAll ==
    /\ flow = "autodetect"
    /\ phase = "idle"
    /\ ~isAutoDetectingAll
    /\ autoDetectAbortRef' = ResetStopFlag(autoDetectAbortRef)
    /\ isAutoDetectingAll' = TRUE
    /\ successCount' = 0
    /\ failCount' = 0
    /\ LET n == Len(AdEntities)
           st == AdLaunch([sem |-> EmptySem,
                           lanes |-> [l \in 1..n |-> NewAdLane("desc", FALSE)]], 1, n)
       IN /\ sem' = st.sem
          /\ lanes' = st.lanes
          /\ laneScenes' = [l \in 1..n |-> <<AdEntities[l]>>]
    /\ phase' = "main"
    /\ UNCHANGED <<sbVars, vidVars, histVars, flow, scenes, scenesRef, scenesClosure,
                   failedIds, summary, characters, charactersRef, sceneSettings,
                   sceneSettingsRef, adTasks>>
    /\ UNCHANGED taskVars
    /\ UNCHANGED toastVars

\* The same button while the run is going on: request the abort.
AdAbort ==
    /\ flow = "autodetect"
    /\ isAutoDetectingAll
    /\ phase \in {"main", "review"}
    /\ ~autoDetectAbortRef
    /\ ~MicrotaskPending
    /\ autoDetectAbortRef' = TRUE
    /\ UNCHANGED <<sbVars, vidVars, histVars, flow, scenes, scenesRef, scenesClosure,
                   sem, phase, laneScenes, lanes, successCount, failCount, failedIds,
                   summary, characters, charactersRef, sceneSettings, sceneSettingsRef,
                   isAutoDetectingAll, adTasks>>
    /\ UNCHANGED taskVars
    /\ UNCHANGED toastVars

\* A lane resumes after an acquire(): with the review slot it enters
\* processCharacter / processScene; with a text or image slot it re-checks the
\* abort flag and otherwise writes its descriptor and sends the request.
AdLaneContinue(l) ==
    /\ flow = "autodetect"
    /\ l \in LaneIds
    /\ lanes[l].pc = "acquired"
    /\ LET e == laneScenes[l][1]
           stage == lanes[l].stage
           st == [sem |-> sem, lanes |-> lanes]
       IN IF stage = "review"
          THEN LET nx == AdStartStage(st, l, "desc", autoDetectAbortRef)
               IN sem' = nx.sem /\ lanes' = nx.lanes /\ UNCHANGED adTasks
          ELSE IF autoDetectAbortRef
          THEN LET nx == AdReturn(Release(st, StageSem(stage)), l)
               IN sem' = nx.sem /\ lanes' = nx.lanes /\ UNCHANGED adTasks
          ELSE /\ lanes' = [lanes EXCEPT ![l].pc = "inflight", ![l].attempts = @ + 1]
               /\ adTasks' = AddTask(adTasks, e, stage)
               /\ UNCHANGED sem
    /\ UNCHANGED <<sbVars, vidVars, histVars, flow, scenes, scenesRef, scenesClosure,
                   phase, laneScenes, successCount, failCount, failedIds, summary,
                   characters, charactersRef, sceneSettings, sceneSettingsRef,
                   autoDetectAbortRef, isAutoDetectingAll>>
    /\ UNCHANGED taskVars
    /\ UNCHANGED toastVars

\* The request of the attempt in flight returns (ok) or throws (~ok).  finally
\* removes the descriptor and releases the slot; then the loop retries, or the
\* phase is counted and the lane goes on to the image phase or returns.
AdJobReturns(l, ok) ==
    /\ flow = "autodetect"
    /\ l \in LaneIds
    /\ lanes[l].pc = "inflight"
    /\ ~MicrotaskPending
    /\ ok \/ laneScenes[l][1] <= MaxFailingEntity
    /\ LET e == laneScenes[l][1]
           stage == lanes[l].stage
           a == lanes[l].attempt
           id == SettingIndex(e)
           released == Release([sem |-> sem, lanes |-> lanes], StageSem(stage))
           retry == ShouldRetry(~ok, a, FALSE)
           counted == [sem |-> released.sem,
                       lanes |-> IF stage = "desc"
                                 THEN [released.lanes EXCEPT ![l].descOutcome =
                                          IF ok THEN "success" ELSE "exhausted"]
                                 ELSE [released.lanes EXCEPT ![l].imgOutcome =
                                          IF ok THEN "success" ELSE "exhausted"]]
           nx == IF retry
                 THEN AdLoopTop([sem |-> released.sem,
                                 lanes |-> [released.lanes EXCEPT ![l].attempt = a + 1,
                                                                  ![l].failures = @ + 1]],
                                l, autoDetectAbortRef)
                 ELSE IF ok /\ stage = "desc"
                 THEN AdStartStage(counted, l, "image", autoDetectAbortRef)
                 ELSE AdReturn(counted, l)
       IN /\ sem' = nx.sem
          /\ lanes' = nx.lanes
          /\ adTasks' = RemoveTask(adTasks, e, stage)
          /\ successCount' = IF ok THEN successCount + 1 ELSE successCount
          /\ failCount' = IF ~ok /\ ~retry THEN failCount + 1 ELSE failCount
          /\ IF ok /\ IsCharacter(e)
             THEN characters' = UpdateAsync(charactersRef, id,
                                            StageUpdates(e, stage))
             ELSE UNCHANGED characters
          /\ IF ok /\ ~IsCharacter(e)
             THEN sceneSettings' = UpdateAsync(sceneSettingsRef, id,
                                               StageUpdates(e, stage))
             ELSE UNCHANGED sceneSettings
    /\ UNCHANGED <<sbVars, vidVars, histVars, flow, scenes, scenesRef, scenesClosure,
                   phase, laneScenes, failedIds, summary, charactersRef,
                   sceneSettingsRef, autoDetectAbortRef, isAutoDetectingAll>>
    /\ UNCHANGED taskVars
    /\ UNCHANGED toastVars

\* React renders CharacterSettings: both refs are assigned the current state.
AdRender ==
    /\ flow = "autodetect"
    /\ ~MicrotaskPending
    /\ charactersRef # characters \/ sceneSettingsRef # sceneSettings
    /\ charactersRef' = characters
    /\ sceneSettingsRef' = sceneSettings
    /\ UNCHANGED <<sbVars, vidVars, histVars, flow, scenes, scenesRef, scenesClosure,
                   sem, phase, laneScenes, lanes, successCount, failCount, failedIds,
                   summary, characters, sceneSettings, autoDetectAbortRef,
                   isAutoDetectingAll, adTasks>>
    /\ UNCHANGED taskVars
    /\ UNCHANGED toastVars

\* The entities the review pass retries, read from the refs.
AdReviewList == SelectSeq(AdEntities, LAMBDA e : NeedsReview(SettingRef(e)))

AdSummary ==
    [shown |-> TRUE, success |-> successCount, fail |-> failCount,
     aborted |-> autoDetectAbortRef]

\* `await Promise.all(allTasks)` resumes: launch the review pass, or finish.
AdMainDone ==
    /\ flow = "autodetect"
    /\ phase = "main"
    /\ AllLanesDone
    /\ LET list == AdReviewList
           n == Len(list)
       IN IF ReviewPassRuns(autoDetectAbortRef, n)
          THEN LET st == AdLaunchReview(
                             [sem |-> [sem EXCEPT !["review"] = [current |-> 0, queue |-> <<>>]],
                              lanes |-> [l \in 1..n |-> NewAdLane("review", TRUE)]], 1, n)
               IN /\ sem' = st.sem
                  /\ lanes' = st.lanes
                  /\ laneScenes' = [l \in 1..n |-> <<list[l]>>]
                  /\ phase' = "review"
                  /\ UNCHANGED <<isAutoDetectingAll, autoDetectAbortRef, summary>>
          ELSE /\ phase' = "done"
               /\ isAutoDetectingAll' = FALSE
               /\ autoDetectAbortRef' = FALSE
               /\ summary' = AdSummary
               /\ UNCHANGED <<sem, lanes, laneScenes>>
    /\ UNCHANGED <<sbVars, vidVars, histVars, flow, scenes, scenesRef, scenesClosure,
                   successCount, failCount, failedIds, characters, charactersRef,
                   sceneSettings, sceneSettingsRef, adTasks>>
    /\ UNCHANGED taskVars
    /\ UNCHANGED toastVars

\* `await Promise.all(reviewTasks)` resumes: the run ends.
AdReviewDone ==
    /\ flow = "autodetect"
    /\ phase = "review"
    /\ AllLanesDone
    /\ phase' = "done"
    /\ isAutoDetectingAll' = FALSE
    /\ autoDetectAbortRef' = FALSE
    /\ summary' = AdSummary
    /\ UNCHANGED <<sbVars, vidVars, histVars, flow, scenes, scenesRef, scenesClosure,
                   sem, laneScenes, lanes, successCount, failCount, failedIds,
                   characters, charactersRef, sceneSettings, sceneSettingsRef,
                   adTasks>>
    /\ UNCHANGED taskVars
    /\ UNCHANGED toastVars

InitAD ==
    /\ flow = "autodetect"
    /\ scenes = <<>>
    /\ characters = <<NewSetting, NewSetting>>
    /\ sceneSettings = <<NewSetting, NewSetting>>
    /\ InitCommon

NextAD ==
    \/ AdDetectAll
    \/ AdAbort
    \/ \E l \in LaneIds : AdLaneContinue(l)
    \/ \E l \in LaneIds, ok \in BOOL : AdJobReturns(l, ok)
    \/ AdRender
    \/ AdMainDone
    \/ AdReviewDone

SpecAD == InitAD /\ [][NextAD]_vars

\* ------------------------------------------------------------------------
\* The three batch orchestrations side by side: a behaviour runs one of them.
\* ------------------------------------------------------------------------
InitBatch == InitSb \/ InitVid \/ InitAD

NextBatch == NextSb \/ NextVid \/ NextAD

SpecBatch == InitBatch /\ [][NextBatch]_vars

\* The steps of a batch run that the event loop takes by itself: promise
\* continuations, and the completions of the remote requests in flight.
RunSteps ==
    \/ \E l \in LaneIds : SbLaneContinue(l)
    \/ \E l \in LaneIds, ok \in BOOL : SbJobReturns(l, ok)
    \/ SbMainSweepDone
    \/ \E l \in LaneIds : SbReviewContinue(l)
    \/ \E l \in LaneIds, ok \in BOOL : SbReviewJobReturns(l, ok)
    \/ SbReviewDone
    \/ \E l \in LaneIds : VidLaneContinue(l)
    \/ \E l \in LaneIds, accepted \in BOOL, provider \in Providers :
          VidJobReturns(l, accepted, provider)
    \/ VidPassDone
    \/ \E l \in LaneIds : AdLaneContinue(l)
    \/ \E l \in LaneIds, ok \in BOOL : AdJobReturns(l, ok)
    \/ AdMainDone
    \/ AdReviewDone

\* The batch runs under the assumption that every pending continuation runs
\* and every remote request eventually returns or fails: a storyboard run on
\* three scenes in two groups, a video run on either project, an auto-detect
\* run on two characters and one scene setting.
InitRun ==
    \/ flow = "storyboard" /\ scenes = ProjectSharedLocation /\ NoSettings /\ InitCommon
    \/ InitVid
    \/ /\ flow = "autodetect"
       /\ scenes = <<>>
       /\ characters = <<NewSetting, NewSetting>>
       /\ sceneSettings = <<NewSetting>>
       /\ InitCommon

SpecRunFair == InitRun /\ [][NextBatch]_vars /\ WF_vars(RunSteps)

\* A page on which an earlier storyboard or video run may have been stopped:
\* its flag is still set.  The auto-detect run clears its flag when it ends.
InitAfterStop ==
    /\ \/ flow = "storyboard" /\ scenes = ProjectSharedLocation /\ NoSettings
       \/ flow = "video" /\ scenes = ProjectSharedLocation /\ NoSettings
       \/ /\ flow = "autodetect"
          /\ scenes = <<>>
          /\ characters = <<NewSetting, NewSetting>>
          /\ sceneSettings = <<NewSetting>>
    /\ InitWorkspace
    /\ stopStoryboardGenRef \in (IF flow = "storyboard" THEN BOOL ELSE {FALSE})
    /\ stopVideoGenRef \in (IF flow = "video" THEN BOOL ELSE {FALSE})
    /\ thumbs = <<>>

SpecAfterStop == InitAfterStop /\ [][NextBatch]_vars

\* ------------------------------------------------------------------------
\* The group partition at the start of a storyboard or video run, over every
\* project of up to MaxGroupScenes scenes whose names are drawn from
\* GroupNames (empty, blank, and names that differ in surrounding blanks)
\* ------------------------------------------------------------------------
GroupNames == {<<>>, <<" ">>, <<"a">>, <<"a", " ">>, <<" ", "a">>, <<"b">>}

ScenesNamed(n) == [1..n -> {NewScene(name) : name \in GroupNames}]

InitGroups ==
    /\ flow \in {"storyboard", "video"}
    /\ scenes \in UNION {ScenesNamed(n) : n \in 1..MaxGroupScenes}
    /\ NoSettings
    /\ InitCommon

NextGroups == SbGenerateAll \/ VidGenerateAll

SpecGroups == InitGroups /\ [][NextGroups]_vars

\* ------------------------------------------------------------------------
\* Task descriptors: single-entity generation, the page load and the expiry
\* sweeps of the settings panel and of the storyboard step
\* ------------------------------------------------------------------------
\* TIMEOUT_MAP, by entity and stage: charDesc, charImg, sceneDesc, sceneImg
TIMEOUT_MAP(e, stage) ==
    IF stage = "desc" THEN 60000
    ELSE IF IsCharacter(e) THEN CHAR_IMAGE_TIMEOUT_MS ELSE SCENE_IMAGE_TIMEOUT_MS

\* Faulty variant: a descriptor of exactly the timeout's age is not expired yet.
ExpiredOffByOne(t) == now - t.startedAt > TIMEOUT_MAP(t.id, t.type)

\* now - t.startedAt >= TIMEOUT_MAP[t.type]
Expired(t) == now - t.startedAt >= TIMEOUT_MAP(t.id, t.type)

\* The generating sets as the sweep of the settings panel leaves them: the
\* indicator of every expired descriptor is deleted.
SweptIds(ids, tasks) == ids \ {<<t.id, t.type>> : t \in {u \in tasks : Expired(u)}}

InitTasks ==
    /\ flow = "tasks"
    /\ scenes = <<NewScene(<<"a">>)>>
    /\ characters \in {<<NewSetting>>,
                       <<[NewSetting EXCEPT !.description = 1, !.imageUrl = 1]>>}
    /\ sceneSettings = <<NewSetting>>
    /\ InitCommon

\* handleGenerateCharacter / handleGenerateScene / handleAutoDescribeCharacter /
\* handleAutoDescribe up to the request: the button is disabled, and the image
\* handlers return at once, while the entity is in the generating set.
GenerateEntity(e, stage) ==
    /\ flow = "tasks"
    /\ starts < MaxStarts
    /\ <<e, stage>> \notin generatingIds
    /\ adTasks' = AddTask(adTasks, e, stage)
    /\ generatingIds' = generatingIds \cup {<<e, stage>>}
    /\ entityCalls' = entityCalls \cup {[id |-> e, type |-> stage, startedAt |-> now,
                                         seen |-> SettingRef(e)]}
    /\ starts' = starts + 1
    /\ UNCHANGED <<sbVars, vidVars, histVars, toastVars, flow, scenes, scenesRef,
                   scenesClosure, sem, phase, laneScenes, lanes, successCount, failCount,
                   failedIds, summary, characters, charactersRef, sceneSettings,
                   sceneSettingsRef, autoDetectAbortRef, isAutoDetectingAll, now,
                   orphanTimer, sbSingles, restored, thumbs>>

\* The request returns (ok) or throws or times out (~ok); finally removes the
\* descriptor and the indicator.  The render that follows refreshes the refs.
EntityReturns(c, ok) ==
    /\ flow = "tasks"
    /\ c \in entityCalls
    /\ entityCalls' = entityCalls \ {c}
    /\ adTasks' = RemoveTask(adTasks, c.id, c.type)
    /\ generatingIds' = generatingIds \ {<<c.id, c.type>>}
    /\ LET updates == IF c.type = "desc" THEN DescriptionUpdates ELSE ImageUpdates(c.seen)
           id == SettingIndex(c.id)
       IN /\ characters' = IF ok /\ IsCharacter(c.id)
                           THEN UpdateAsync(charactersRef, id, updates) ELSE characters
          /\ sceneSettings' = IF ok /\ ~IsCharacter(c.id)
                              THEN UpdateAsync(sceneSettingsRef, id, updates)
                              ELSE sceneSettings
    /\ charactersRef' = characters'
    /\ sceneSettingsRef' = sceneSettings'
    /\ UNCHANGED <<sbVars, vidVars, histVars, toastVars, flow, scenes, scenesRef,
                   scenesClosure, sem, phase, laneScenes, lanes, successCount, failCount,
                   failedIds, summary, autoDetectAbortRef, isAutoDetectingAll, now,
                   orphanTimer, sbSingles, starts, restored, thumbs>>

\* handleGenerateSceneStoryboard from the button of one scene, up to the fetch.
SingleStoryboard(s) ==
    /\ flow \in {"tasks", "sbrace", "history"}
    /\ ~MicrotaskPending
    /\ s \in SceneIds
    /\ starts < MaxStarts
    /\ s \notin generatingScenes
    /\ sbTasks' = AddSbTask(sbTasks, s)
    /\ generatingScenes' = generatingScenes \cup {s}
    /\ sbSingles' = sbSingles \cup {[scene |-> s, startedAt |-> now,
                                     generatingAll |-> isGeneratingAllStoryboards]}
    /\ starts' = starts + 1
    /\ prevStoryboardSent' = SendStoryboardRequest(prevStoryboardSent, scenes, s)
    /\ UNCHANGED <<vidVars, histVars, adVars, isGeneratingAllClosure, errorToasts, flow, scenes, scenesRef,
                   scenesClosure, stopStoryboardGenRef, isGeneratingAllStoryboards, sem,
                   phase, laneScenes, lanes, successCount, failCount, failedIds, summary,
                   now, generatingIds, entityCalls, orphanTimer, restored, thumbs>>

\* The fetch returns (ok) or fails or is aborted (~ok): merge or notify, then
\* finally removes the descriptor and the indicator.
SingleStoryboardReturns(c, ok) ==
    /\ flow \in {"tasks", "sbrace", "history"}
    /\ ~MicrotaskPending
    /\ c \in sbSingles
    /\ sbSingles' = sbSingles \ {c}
    /\ scenes' = IF ok THEN MergeStoryboard(scenes, c.scene, NewImageUrl(c.scene)) ELSE scenes
    /\ scenesRef' = scenes'
    /\ errorToasts' = IF ok THEN errorToasts ELSE ErrorToast(errorToasts, c.generatingAll)
    /\ sbTasks' = RemoveSbTask(sbTasks, c.scene)
    /\ generatingScenes' = generatingScenes \ {c.scene}
    /\ UNCHANGED <<vidVars, histVars, adVars, flow, scenesClosure, stopStoryboardGenRef,
                   isGeneratingAllStoryboards, sem, phase, laneScenes, lanes, successCount,
                   failCount, failedIds, summary, now, generatingIds, entityCalls,
                   orphanTimer, starts, restored, isGeneratingAllClosure, prevStoryboardSent,
                   thumbs>>

\* Time passes, by d clock steps.  A timer that is armed fires before time
\* passes it: the orphan cleanup, withTimeout of an image request, and the
\* abort timer of a storyboard request.
Elapse(d) ==
    /\ flow = "tasks"
    /\ ~orphanTimer
    /\ now + d * ClockStep <= MaxClock
    /\ \A c \in entityCalls :
          c.type = "image" => now + d * ClockStep <= c.startedAt + TIMEOUT_MAP(c.id, c.type)
    /\ \A c \in sbSingles : now + d * ClockStep <= c.startedAt + 300000
    /\ now' = now + d * ClockStep
    /\ UNCHANGED <<sbVars, vidVars, histVars, adVars, toastVars, flow, scenes, scenesRef,
                   scenesClosure, sem, phase, laneScenes, lanes, successCount, failCount,
                   failedIds, summary, generatingIds, entityCalls, orphanTimer, sbSingles,
                   starts, restored, thumbs>>

\* The interval of the settings panel fires.
SettingsSweep ==
    /\ flow = "tasks"
    /\ adTasks' = {t \in adTasks : ~Expired(t)}
    /\ generatingIds' = SweptIds(generatingIds, adTasks)
    /\ UNCHANGED <<sbVars, vidVars, histVars, toastVars, flow, scenes, scenesRef,
                   scenesClosure, sem, phase, laneScenes, lanes, successCount, failCount,
                   failedIds, summary, characters, charactersRef, sceneSettings,
                   sceneSettingsRef, autoDetectAbortRef, isAutoDetectingAll, now,
                   entityCalls, orphanTimer, sbSingles, starts, restored, thumbs>>

\* The interval of the Workspace page fires.
StoryboardSweep ==
    /\ flow = "tasks"
    /\ sbTasks' = SelectSeq(sbTasks, LAMBDA t : now - t.startedAt < SB_TIMEOUT_MS)
    /\ generatingScenes' = generatingScenes \
          {sbTasks[i].id : i \in {j \in DOMAIN sbTasks :
                                     now - sbTasks[j].startedAt >= SB_TIMEOUT_MS}}
    /\ UNCHANGED <<vidVars, histVars, adVars, taskVars, toastVars, flow, scenes, scenesRef,
                   scenesClosure, stopStoryboardGenRef, isGeneratingAllStoryboards, sem,
                   phase, laneScenes, lanes, successCount, failCount, failedIds, summary>>

\* The page is loaded again: the requests in flight are gone, the generating
\* sets are initialised from the descriptors, and the mount effect of the
\* settings panel empties its store and arms the orphan cleanup.
PageLoad ==
    /\ flow = "tasks"
    /\ reloads < MaxReloads
    /\ reloads' = reloads + 1
    /\ entityCalls' = {}
    /\ sbSingles' = {}
    /\ generatingIds' = {<<t.id, t.type>> : t \in {u \in adTasks : ~Expired(u)}}
    /\ restored' = {t \in adTasks : ~Expired(t)}
    /\ adTasks' = {}
    /\ orphanTimer' = TRUE
    /\ generatingScenes' = {sbTasks[i].id : i \in {j \in DOMAIN sbTasks :
                                 now - sbTasks[j].startedAt < SB_TIMEOUT_MS}}
    /\ UNCHANGED <<histVars, toastVars, flow, scenes, scenesRef, scenesClosure, sbTasks,
                   stopStoryboardGenRef, isGeneratingAllStoryboards, sem, phase, laneScenes,
                   lanes, successCount, failCount, failedIds, summary, stopVideoGenRef,
                   isGeneratingVideo, polls, videoTasks, submits, characters, charactersRef,
                   sceneSettings, sceneSettingsRef, autoDetectAbortRef, isAutoDetectingAll,
                   now, starts, thumbs>>

\* The orphan cleanup, 100 ms after the mount: the indicators of the entities
\* that have their result are cleared.
OrphanTimeout ==
    /\ flow = "tasks"
    /\ orphanTimer
    /\ orphanTimer' = FALSE
    /\ generatingIds' = {p \in generatingIds :
                            IF p[2] = "desc" THEN SettingRef(p[1]).description = 0
                            ELSE SettingRef(p[1]).imageUrl = 0}
    /\ UNCHANGED <<sbVars, vidVars, histVars, adVars, toastVars, flow, scenes, scenesRef,
                   scenesClosure, sem, phase, laneScenes, lanes, successCount, failCount,
                   failedIds, summary, now, entityCalls, sbSingles, starts, restored,
                   thumbs>>

NextTasks ==
    \/ \E e \in 1..(Len(characters) + Len(sceneSettings)), stage \in {"desc", "image"} :
          GenerateEntity(e, stage)
    \/ \E c \in entityCalls, ok \in BOOL : EntityReturns(c, ok)
    \/ \E s \in SceneIds : SingleStoryboard(s)
    \/ \E c \in sbSingles, ok \in BOOL : SingleStoryboardReturns(c, ok)
    \/ \E d \in {1, 3} : Elapse(d)
    \/ SettingsSweep
    \/ StoryboardSweep
    \/ PageLoad
    \/ OrphanTimeout

SpecTasks == InitTasks /\ [][NextTasks]_vars

\* ------------------------------------------------------------------------
\* A storyboard batch run during which the user also uses the per-scene
\* button.  The generations of the batch run succeed in this flow.
\* ------------------------------------------------------------------------
InitSbRace == flow = "sbrace" /\ scenes = ProjectFourGroups /\ NoSettings /\ InitCommon

NextSbRace ==
    \/ SbGenerateAll
    \/ \E l \in LaneIds : SbLaneContinue(l)
    \/ \E l \in LaneIds : SbJobReturns(l, TRUE)
    \/ Render
    \/ SbMainSweepDone
    \/ \E l \in LaneIds : SbReviewContinue(l)
    \/ \E l \in LaneIds : SbReviewJobReturns(l, TRUE)
    \/ SbReviewDone
    \/ \E s \in SceneIds : SingleStoryboard(s)
    \/ \E c \in sbSingles, ok \in BOOL : SingleStoryboardReturns(c, ok)

SpecSbRace == InitSbRace /\ [][NextSbRace]_vars

\* ------------------------------------------------------------------------
\* The history popovers of the storyboard step and of the video step: a
\* scene with generations behind it, whose user generates again and
\* restores earlier results.
\* ------------------------------------------------------------------------
\* Faulty variant: the current storyboard is not kept when another is restored.
RestoredStoryboardDropsCurrent(sc, url) ==
    [sc EXCEPT !.storyboardUrl = url,
               !.storyboardHistory = WithoutUrl(sc.storyboardHistory, url)]

\* StoryboardPreview.restoreFromHistory: the current storyboard goes to the
\* history unless it is there, the restored url leaves it and becomes current.
RestoredStoryboard(sc, url) ==
    LET history == IF sc.storyboardUrl # 0 /\ ~InSeq(sc.storyboardHistory, sc.storyboardUrl)
                   THEN Append(sc.storyboardHistory, sc.storyboardUrl)
                   ELSE sc.storyboardHistory
    IN [sc EXCEPT !.storyboardUrl = url,
                  !.storyboardHistory = WithoutUrl(history, url)]

RestoreStoryboard(s, j) ==
    /\ flow = "history"
    /\ s \in SceneIds
    /\ j \in 1..Len(scenes[s].storyboardHistory)
    /\ scenes' = [scenes EXCEPT ![s] = RestoredStoryboard(@, scenes[s].storyboardHistory[j])]
    /\ UNCHANGED <<sbVars, vidVars, histVars, adVars, taskVars, toastVars, flow, scenesRef,
                   scenesClosure, sem, phase, laneScenes, lanes, successCount, failCount,
                   failedIds, summary>>

\* A saved project whose scene has a storyboard and a video, each with an
\* older one in its history.
ProjectWithHistory ==
    <<[NewScene(<<"b">>) EXCEPT !.storyboardUrl = 2, !.storyboardHistory = <<1>>,
                                !.videoUrl = 1, !.videoStatus = "completed",
                                !.videoHistory = <<2>>]>>

InitHistory == flow = "history" /\ scenes = ProjectWithHistory /\ NoSettings /\ InitCommon

NextHistory ==
    \/ \E s \in SceneIds : SingleStoryboard(s)
    \/ \E c \in sbSingles, ok \in BOOL : SingleStoryboardReturns(c, ok)
    \/ \E s \in SceneIds : \E j \in 1..Len(scenes[s].storyboardHistory) :
          RestoreStoryboard(s, j)
    \/ \E s \in SceneIds : RegenerateVideo(s)
    \/ \E s \in SceneIds, accepted \in BOOL, provider \in Providers :
          SubmitReturns(s, accepted, provider)
    \/ \E i \in DOMAIN polls : \E data \in TerminalStatusData(polls[i]) : PollTick(i, data)
    \/ \E s \in SceneIds : \E j \in 1..Len(scenes[s].videoHistory) : RestoreVideo(s, j)

SpecHistory == InitHistory /\ [][NextHistory]_vars

\* ------------------------------------------------------------------------
\* The thumbnail cache of ImageThumbnail: an IndexedDB object store from key
\* (the image source) to {url, usedAt}, with an index on usedAt.  thumbs maps
\* the keys of the store to their usedAt; keys are ordered as the store orders
\* them.  Each of idbGet and idbSet runs in one readwrite transaction, which
\* the store serialises, so each is one step.  Date.now() is counted from the
\* start of the behaviour: entries cached by earlier page loads have stamps
\* below 0.
\* ------------------------------------------------------------------------
MAX_CACHE_ENTRIES == 200

\* The sources that thumbnails are shown for in a behaviour: new ones that the
\* store orders before and after the cached ones, and cached ones.
CacheKeys == {0, 1, 2, MAX_CACHE_ENTRIES, MAX_CACHE_ENTRIES + 1}

\* The stores the behaviours start from: one below the limit or full, with
\* the older entries at the smaller keys, at the larger keys, or with pairs
\* of entries of the same age.
Preloaded(n, layout) ==
    [k \in 1..n |-> CASE layout = "asc" -> k - (MAX_CACHE_ENTRIES + 1)
                      [] layout = "desc" -> 0 - k
                      [] layout = "pairs" -> (k \div 2) - (MAX_CACHE_ENTRIES + 1)]

InitThumbs ==
    /\ flow = "thumbs"
    /\ scenes = <<>>
    /\ NoSettings
    /\ InitWorkspace
    /\ stopStoryboardGenRef = FALSE
    /\ stopVideoGenRef = FALSE
    /\ thumbs \in {Preloaded(n, layout) :
                      n \in {MAX_CACHE_ENTRIES - 1, MAX_CACHE_ENTRIES},
                      layout \in {"asc", "desc", "pairs"}}

cacheFrame == <<vidVars, histVars, adVars, toastVars, sbVars, flow, scenes, scenesRef,
                scenesClosure, sem, phase, laneScenes, lanes, successCount, failCount,
                failedIds, summary, generatingIds, entityCalls, orphanTimer, sbSingles,
                starts, restored>>

\* store.put({ url, usedAt: Date.now() }, key)
IdbPut(store, key) ==
    [k \in DOMAIN store \cup {key} |-> IF k = key THEN now ELSE store[k]]

\* Faulty variant: the cursor runs over the store itself, in key order.
OldestByKey(store) == CHOOSE k \in DOMAIN store : \A j \in DOMAIN store : k <= j

\* The entry a cursor over the index "usedAt" is positioned at first: the
\* least usedAt, and among equal ones the least key.
Oldest(store) ==
    LET stamps == {store[k] : k \in DOMAIN store}
        least == CHOOSE x \in stamps : \A y \in stamps : x <= y
        first == {k \in DOMAIN store : store[k] = least}
    IN CHOOSE k \in first : \A j \in first : k <= j

\* The cursor loop: delete the first toDelete entries of the index.
RECURSIVE Evict(_, _)
Evict(store, toDelete) ==
    IF toDelete <= 0 \/ DOMAIN store = {} THEN store
    ELSE Evict([k \in DOMAIN store \ {Oldest(store)} |-> store[k]], toDelete - 1)

\* idbSet(key, value): put, count, and evict when the count is over the limit.
IdbSet(key) ==
    /\ flow = "thumbs"
    /\ LET put == IdbPut(thumbs, key)
           total == Cardinality(DOMAIN put)
       IN thumbs' = IF total <= MAX_CACHE_ENTRIES THEN put
                    ELSE Evict(put, total - MAX_CACHE_ENTRIES)
    /\ UNCHANGED <<cacheFrame, now>>

\* idbGet(key): a hit stamps the entry with the time of the read.
IdbGet(key) ==
    /\ flow = "thumbs"
    /\ thumbs' = IF key \in DOMAIN thumbs THEN IdbPut(thumbs, key) ELSE thumbs
    /\ UNCHANGED <<cacheFrame, now>>

\* A millisecond passes.
CacheTick ==
    /\ flow = "thumbs"
    /\ now < MaxCacheClock
    /\ now' = now + 1
    /\ UNCHANGED <<cacheFrame, thumbs>>

NextThumbs ==
    \/ \E key \in CacheKeys : IdbSet(key)
    \/ \E key \in CacheKeys : IdbGet(key)
    \/ CacheTick

SpecThumbs == InitThumbs /\ [][NextThumbs]_vars

\* ========================================================================
\* Properties
\* ========================================================================

\* The limiter a lane holds a slot of: its acquire() has resolved and it has
\* not called release() yet.
HoldsSlot(l, name) ==
    IF flow = "autodetect"
    THEN \/ /\ name = "review"
            /\ lanes[l].inReview
            /\ lanes[l].pc # "done"
            /\ ~(lanes[l].stage = "review" /\ lanes[l].pc = "waiting")
         \/ /\ lanes[l].stage # "review"
            /\ name = StageSem(lanes[l].stage)
            /\ lanes[l].pc \in {"acquired", "inflight"}
    ELSE name = PassSem /\ lanes[l].pc \in {"acquired", "inflight"}

Holders(name) == {l \in LaneIds : HoldsSlot(l, name)}

InFlight == {l \in LaneIds : lanes[l].pc = "inflight"}

\* C1: for every limiter (the inline pairs with max 3, createSemaphore(2) of
\* the review passes, textSem(3) and imageSem(2)) the number of holders, and
\* the limiter's own counter, never exceed its max; at most 3 storyboard
\* generations of a batch run are in flight at once.
LimiterHoldersWithinMax ==
    /\ \A n \in SemNames :
          /\ Cardinality(Holders(n)) <= SemMax(n)
          /\ sem[n].current <= SemMax(n)
    /\ flow = "storyboard" => Cardinality(InFlight) <= MainMax

\* C1 witness: the main limiter of a storyboard batch is full, three
\* generations are in flight and a fourth lane waits in its queue.
LimiterSaturated ==
    /\ flow = "storyboard"
    /\ phase = "main"
    /\ Cardinality(InFlight) = MainMax
    /\ Cardinality(Holders("main")) = MainMax
    /\ Len(sem["main"].queue) > 0

\* C2: within a group the descriptor of a later scene is written only after
\* every earlier scene of the group has reached its terminal outcome (success
\* or attempts exhausted) and its descriptor is removed; a group has at most
\* one scene executing, and its scenes are taken in list order.
GroupRunsInOrder ==
    flow = "storyboard" =>
        \A l \in LaneIds :
            /\ Cardinality({q \in 1..Len(laneScenes[l]) :
                               laneScenes[l][q] \in SbTaskIds \cup generatingScenes}) <= 1
            /\ \A p, q \in 1..Len(laneScenes[l]) :
                  p < q =>
                     /\ laneScenes[l][p] < laneScenes[l][q]
                     /\ laneScenes[l][q] \in SbTaskIds \cup generatingScenes =>
                           /\ laneScenes[l][p] \in terminalInPass
                           /\ laneScenes[l][p] \notin SbTaskIds
                           /\ phase = "main" =>
                                 outcome[laneScenes[l][p]] \in {"success", "exhausted"}

\* C2 witness: the second scene of a group is being generated while another
\* group has a generation in flight too.
SecondOfGroupRunning ==
    /\ flow = "storyboard"
    /\ phase = "main"
    /\ \E l, m \in LaneIds :
          /\ l # m
          /\ lanes[l].pc = "inflight"
          /\ lanes[l].idx = 2
          /\ laneScenes[l][2] \in SbTaskIds
          /\ lanes[m].pc = "inflight"

\* Storyboard retry loop, no cancellation: at most 3 invocations per scene; a
\* success after k failures took k + 1 invocations and is not marked failed;
\* 3 failures are 3 invocations, counted failed; the counters match.
SbRetryCounts ==
    (flow = "storyboard" /\ ~stopStoryboardGenRef) =>
        /\ \A s \in SceneIds :
              /\ calls[s] <= maxRetries + 1
              /\ outcome[s] = "success" =>
                    calls[s] = fails[s] + 1 /\ fails[s] <= maxRetries /\ s \notin failedIds
              /\ outcome[s] = "exhausted" =>
                    calls[s] = maxRetries + 1 /\ fails[s] = maxRetries + 1 /\ s \in failedIds
              /\ fails[s] = maxRetries + 1 => outcome[s] = "exhausted"
        /\ phase = "main" =>
              /\ successCount = Cardinality({s \in SceneIds : outcome[s] = "success"})
              /\ failCount = Cardinality({s \in SceneIds : outcome[s] = "exhausted"})

\* The request of lane l returns in this step.
AdReturned(l) ==
    /\ lanes[l].pc = "inflight"
    /\ HasTask(adTasks, laneScenes[l][1], lanes[l].stage)
    /\ ~HasTask(adTasks', laneScenes[l][1], lanes[l].stage)

AdOutcome(lane, stage) == IF stage = "desc" THEN lane.descOutcome ELSE lane.imgOutcome

\* Description and image retry loops: the step on which a request returns.
AdRetryStep ==
    flow = "autodetect" =>
        \A l \in LaneIds :
            /\ lanes[l].attempts <= maxRetries + 1
            /\ AdReturned(l) =>
                  IF successCount' = successCount + 1
                  THEN /\ lanes[l].attempts = lanes[l].failures + 1
                       /\ lanes[l].failures <= maxRetries
                       /\ failCount' = failCount
                       /\ AdOutcome(lanes'[l], lanes[l].stage) = "success"
                  ELSE IF lanes[l].failures = maxRetries
                  THEN /\ lanes[l].attempts = maxRetries + 1
                       /\ failCount' = failCount + 1
                       /\ successCount' = successCount
                       /\ AdOutcome(lanes'[l], lanes[l].stage) = "exhausted"
                       /\ lanes'[l].pc = "done"
                  ELSE /\ failCount' = failCount
                       /\ successCount' = successCount
                       /\ ~autoDetectAbortRef =>
                             /\ lanes'[l].pc \in {"acquired", "waiting"}
                             /\ lanes'[l].stage = lanes[l].stage
                             /\ lanes'[l].failures = lanes[l].failures + 1

\* C3: in the batch retry loops (storyboard per scene, description and image
\* phase per entity) without cancellation, a job failing k < 3 times and then
\* succeeding is invoked k + 1 times and counted as succeeded, a job failing
\* every time is invoked exactly 3 times and counted as failed, and no loop
\* makes more than 3 attempts.
RetryLoopCounts == [][SbRetryCounts' /\ AdRetryStep]_vars

\* C3 witness: one scene succeeded on its third attempt and another one
\* exhausted its three attempts, with no cancellation.
RetriedAndExhausted ==
    /\ flow = "storyboard"
    /\ ~stopStoryboardGenRef
    /\ \E s, r \in SceneIds :
          /\ outcome[s] = "success" /\ fails[s] = maxRetries /\ calls[s] = maxRetries + 1
          /\ outcome[r] = "exhausted" /\ calls[r] = maxRetries + 1

\* C4: a scene whose video submission fails on every attempt is submitted
\* exactly 3 times in the main sweep, counted as failed in the summary and
\* handed to the review pass.
FailingSubmissionRetried ==
    (flow = "video" /\ phase = "done" /\ ~stopVideoGenRef) =>
        \A s \in SceneIds :
            (calls[s] >= 1 /\ fails[s] = calls[s]) =>
                /\ calls[s] = maxRetries + 1
                /\ s \in failedIds
                /\ summary.fail >= 1

\* Storyboard batch, stop flag set: no further handler invocation, no new
\* descriptor; a lane that waits never starts; an attempt in flight that
\* returns leaves its scene terminal and its lane finished.
SbStopStep ==
    (flow = "storyboard" /\ stopStoryboardGenRef) =>
        /\ calls' = calls
        /\ reviewCalls' = reviewCalls
        /\ SbTaskIds' \subseteq SbTaskIds
        /\ generatingScenes' \subseteq generatingScenes
        /\ \A l \in LaneIds :
              /\ lanes[l].pc # "inflight" => lanes'[l].pc # "inflight"
              /\ (lanes[l].pc = "inflight" /\ lanes'[l] # lanes[l]) =>
                    /\ lanes'[l].pc = "done"
                    /\ laneScenes[l][lanes[l].idx] \in terminalInPass'
                    /\ laneScenes[l][lanes[l].idx] \notin SbTaskIds'

\* Auto-detect, abort flag set: no new descriptor, no lane sends a request, a
\* request in flight that returns ends its lane.
AdAbortStep ==
    (flow = "autodetect" /\ autoDetectAbortRef) =>
        /\ adTasks' \subseteq adTasks
        /\ \A l \in LaneIds :
              /\ lanes[l].pc # "inflight" => lanes'[l].pc # "inflight"
              /\ AdReturned(l) => lanes'[l].pc = "done"

\* C5: once the stop flag of a batch run is set no lane creates a descriptor
\* any more: scenes not yet started are never dispatched, an attempt in
\* flight finishes and its scene reaches a terminal outcome, and no further
\* attempt is made.
StopHaltsDispatch == [][SbStopStep /\ AdAbortStep]_vars

\* C5 witness: a stopped storyboard batch has ended; one scene was cut short
\* after a failed attempt and another was never dispatched.
StoppedRunEnded ==
    /\ flow = "storyboard"
    /\ phase = "done"
    /\ summary.aborted
    /\ \E s, r \in SceneIds :
          /\ outcome[s] = "stopped" /\ calls[s] < maxRetries + 1
          /\ calls[r] = 0 /\ reviewCalls[r] = 0

\* C6: without cancellation the review pass dispatches exactly the scenes
\* that ended the main sweep without a storyboard, each once, and no scene
\* that obtained its storyboard in the main sweep.
ReviewDispatchesExactlyMissing ==
    (flow = "storyboard" /\ phase = "done" /\ ~stopStoryboardGenRef) =>
        \A s \in SceneIds : reviewCalls[s] = IF s \in mainMissing THEN 1 ELSE 0

\* The setting of entity e in the React state.
Setting(e) == IF IsCharacter(e) THEN characters[e] ELSE sceneSettings[SettingIndex(e)]

\* C7: the collection contains the update of every completed job, in every
\* interleaving of the completions: characters, scene settings and scenes.
NoLostUpdate ==
    /\ (flow = "autodetect" /\ phase = "main") =>
          \A l \in LaneIds :
              /\ lanes[l].descOutcome = "success" => Setting(laneScenes[l][1]).description # 0
              /\ lanes[l].imgOutcome = "success" => Setting(laneScenes[l][1]).imageUrl # 0
    /\ (flow = "storyboard" /\ phase = "main") =>
          \A s \in SceneIds : outcome[s] = "success" => scenes[s].storyboardUrl # 0

IsTerminalStatus(status) == status \in {"completed", "failed"}

\* A poll tick of loop i happens in this step.
Ticked(i) ==
    /\ i \in DOMAIN polls
    /\ i \in DOMAIN polls'
    /\ reloads' = reloads
    /\ polls'[i].attempts = polls[i].attempts + 1

\* C8: a poll loop takes its scene to exactly one of completed or failed,
\* schedules no check after its first terminal status, and no poll tick
\* changes a status that is completed or failed.
PollReachesTerminalOnce ==
    [][\A i \in DOMAIN polls :
          /\ polls[i].sawTerminal => ~Ticked(i)
          /\ Ticked(i) =>
                /\ polls'[i].sawTerminal =>
                      ~polls'[i].scheduled /\
                      IsTerminalStatus(scenes'[polls[i].scene].videoStatus)
                /\ IsTerminalStatus(scenes[polls[i].scene].videoStatus) =>
                      scenes'[polls[i].scene].videoStatus =
                          scenes[polls[i].scene].videoStatus]_vars

\* C9: when a poll tick sets a scene's status to completed, the scene's
\* videoUrl is non-empty.
CompletedHasVideoUrl ==
    [][\A i \in DOMAIN polls :
          (Ticked(i) /\ polls'[i].sawTerminal
             /\ scenes'[polls[i].scene].videoStatus = "completed") =>
                scenes'[polls[i].scene].videoUrl # 0]_vars

\* C10: on project load every scene persisted with a non-terminal status
\* (preparing, queued or processing) and a videoTaskId gets a poll loop for
\* that task id.
LoadResumesEveryHandle ==
    [][reloads' = reloads + 1 =>
          \A s \in SceneIds :
              (IsProcessing(scenes[s].videoStatus) /\ scenes[s].videoTaskId # 0) =>
                  \E i \in DOMAIN polls' :
                      /\ polls'[i].scene = s
                      /\ polls'[i].taskId = scenes[s].videoTaskId
                      /\ polls'[i].scheduled]_vars

HitCap(loop) == loop.attempts >= maxAttempts /\ ~loop.sawTerminal

\* C12: a poll loop that reaches the attempt cap without a terminal status
\* stops polling and shows the timeout notice, also when its last status
\* check failed with an error.
CapSurfacesTimeout ==
    \A i \in DOMAIN polls :
        HitCap(polls[i]) => ~polls[i].scheduled /\ polls[i].timeoutToast

\* C13: the attempt counter of a poll loop never exceeds maxAttempts (120),
\* and a check is scheduled only while the counter is below it, whether the
\* checks answer a non-terminal status or throw.
PollAttemptsWithinCap ==
    \A i \in DOMAIN polls :
        /\ polls[i].attempts <= maxAttempts
        /\ polls[i].scheduled => polls[i].attempts < maxAttempts

\* C13 witness: a loop stopped at 120 checks; some check answered a
\* non-terminal status (the scene shows processing) and the last one threw
\* (no timeout notice).
PollCapReached ==
    \E i \in DOMAIN polls :
        /\ polls[i].attempts = maxAttempts
        /\ ~polls[i].scheduled
        /\ ~polls[i].sawTerminal
        /\ ~polls[i].timeoutToast
        /\ scenes[polls[i].scene].videoStatus = "processing"

\* C14: the check on which a poll loop reaches the cap leaves the scene's
\* videoTaskId in place and does not mark the scene failed, and a later load
\* starts a poll loop for that same task id.
CapKeepsHandleForResume ==
    [][/\ \A i \in DOMAIN polls :
              (Ticked(i) /\ HitCap(polls'[i])) =>
                  /\ scenes'[polls[i].scene].videoTaskId = scenes[polls[i].scene].videoTaskId
                  /\ scenes'[polls[i].scene].videoStatus # "failed"
       /\ reloads' = reloads + 1 =>
              \A i \in DOMAIN polls :
                  (/\ HitCap(polls[i])
                   /\ scenes[polls[i].scene].videoTaskId = polls[i].taskId
                   /\ ~IsTerminalStatus(scenes[polls[i].scene].videoStatus)) =>
                      \E j \in DOMAIN polls' :
                          /\ polls'[j].scene = polls[i].scene
                          /\ polls'[j].taskId = polls[i].taskId
                          /\ polls'[j].scheduled]_vars

\* C15: when the status check of a poll loop answers terminal success with
\* url X, the scene's videoUrl becomes X, its previous videoUrl (if any) is in
\* videoHistory after the earlier entries, videoStatus is completed and
\* videoTaskId is cleared; the scene's other fields and all other scenes are
\* unchanged.
SuccessInstallsVideo ==
    [][\A i \in DOMAIN polls :
          \A data \in StatusData(polls[i]) :
              (~data.threw /\ IsSuccessStatus(data.status) /\ PollTick(i, data)) =>
                  LET s == polls[i].scene
                      old == scenes[s]
                      new == scenes'[s]
                  IN /\ new.videoUrl = ExtractVideoUrl(data)
                     /\ new.videoStatus = "completed"
                     /\ new.videoTaskId = 0
                     /\ old.videoUrl # 0 => InSeq(new.videoHistory, old.videoUrl)
                     /\ Len(new.videoHistory) \in {Len(old.videoHistory),
                                                   Len(old.videoHistory) + 1}
                     /\ SubSeq(new.videoHistory, 1, Len(old.videoHistory)) = old.videoHistory
                     /\ new.sceneName = old.sceneName
                     /\ new.storyboardUrl = old.storyboardUrl
                     /\ new.storyboardHistory = old.storyboardHistory
                     /\ \A r \in SceneIds \ {s} : scenes'[r] = scenes[r]]_vars

\* C15 witness: a poll loop ended on success; its scene shows the url the
\* provider returned and its earlier video is in its history, while the other
\* scene still has its own video.
NewVideoInstalled ==
    \E i \in DOMAIN polls :
        LET s == polls[i].scene
        IN /\ polls[i].sawTerminal
           /\ scenes[s].videoStatus = "completed"
           /\ scenes[s].videoTaskId = 0
           /\ scenes[s].videoUrl > 9
           /\ scenes[s].videoHistory # <<>>
           /\ \E r \in SceneIds \ {s} : scenes[r].videoUrl # 0

\* C16: when the stop flag is set while an attempt of a scene is in flight in
\* handleGenerateAllStoryboards and that attempt fails with attempts left,
\* the retry loop makes no further attempt and the exit is not counted: the
\* failure count is not incremented and the scene is not recorded as failed.
StopExitNotCountedFailed ==
    [][(flow = "storyboard" /\ phase = "main" /\ stopStoryboardGenRef) =>
          \A l \in LaneIds :
              (/\ lanes[l].pc = "inflight"
               /\ lanes[l].attempt < maxRetries
               /\ lanes'[l] # lanes[l]
               /\ successCount' = successCount) =>
                  /\ calls' = calls
                  /\ failCount' = failCount
                  /\ failedIds' = failedIds]_vars

\* The cancellation flag of the batch run of this behaviour.
StopRequested ==
    CASE flow = "storyboard" -> stopStoryboardGenRef
      [] flow = "video" -> stopVideoGenRef
      [] flow = "autodetect" -> autoDetectAbortRef
      [] OTHER -> FALSE

\* Every slot taken is held by exactly one lane, the suspended lanes are the
\* ones queued at a limiter, a lane is suspended only while its limiter is
\* full, and a finished run leaves every limiter empty.
SlotAccounting ==
    /\ \A n \in SemNames :
          /\ sem[n].current = Cardinality(Holders(n))
          /\ \A q \in 1..Len(sem[n].queue) : lanes[sem[n].queue[q]].pc = "waiting"
          /\ sem[n].queue # <<>> => sem[n].current = SemMax(n)
    /\ \A l \in LaneIds :
          lanes[l].pc = "waiting" =>
              Cardinality({n \in SemNames : InSeq(sem[n].queue, l)}) = 1
    /\ phase = "done" =>
          /\ \A n \in SemNames : sem[n].current = 0 /\ sem[n].queue = <<>>
          /\ \A l \in LaneIds : lanes[l].pc = "done"

\* A lane resumes after acquire() with the flag set: it gives the slot back,
\* returns, and nothing is dispatched.
StopAfterAcquireStep ==
    StopRequested =>
        \A l \in LaneIds :
            (lanes[l].pc = "acquired" /\ lanes'[l] # lanes[l]) =>
                /\ lanes'[l].pc = "done"
                /\ \A n \in SemNames : l \notin Holders(n)'
                /\ calls' = calls
                /\ reviewCalls' = reviewCalls
                /\ adTasks' = adTasks
                /\ sbTasks' = sbTasks
                /\ scenes' = scenes

\* C17: a lane that finds the cancellation flag set right after acquire
\* releases the slot, returns and processes no remaining entity of its group;
\* every acquired slot is released exactly once on every path, so a finished
\* batch run leaves each limiter with zero holders and no suspended waiter.
SlotsReleasedExactlyOnce == [][SlotAccounting' /\ StopAfterAcquireStep]_vars

\* C17 witness: a stopped storyboard run has finished with every limiter
\* empty; a scene of a group that had waited for a slot was never generated.
StoppedRunLeavesLimiterEmpty ==
    /\ flow = "storyboard"
    /\ phase = "done"
    /\ summary.aborted
    /\ \A n \in SemNames : sem[n].current = 0 /\ sem[n].queue = <<>>
    /\ Len(scenes) = 4
    /\ calls[4] = 0
    /\ calls[1] > 0 /\ calls[2] > 0 /\ calls[3] > 0

\* C18: when cancellation was requested before the review pass starts, the
\* run goes from its main sweep straight to the summary: the review pass is
\* not launched and dispatches no job, in the storyboard, video and
\* auto-detect batch runs.
StoppedRunSkipsReview ==
    [][(phase = "main" /\ StopRequested /\ phase' # "main") =>
          /\ phase' = "done"
          /\ summary'.shown /\ summary'.aborted
          /\ reviewCalls' = reviewCalls
          /\ calls' = calls
          /\ adTasks' = adTasks
          /\ sbTasks' = sbTasks
          /\ lanes' = lanes]_vars

\* C18 witness: a storyboard run stopped during its main sweep has ended with
\* a failed scene that still has no storyboard, and the review pass called
\* the handler for no scene.
StoppedBeforeReview ==
    /\ flow = "storyboard"
    /\ phase = "done"
    /\ summary.aborted
    /\ \E s \in failedIds : scenes[s].storyboardUrl = 0
    /\ \A s \in SceneIds : reviewCalls[s] = 0

\* The entities whose setting in the React state lacks a description or an image.
Incomplete == {e \in 1..Len(AdEntities) : NeedsReview(Setting(e))}

\* C19: when the main sweep of handleAutoDetectAll ends without abort, the
\* review pass is launched for exactly the characters and scene settings that
\* lack a description or an image, each once, and for no entity that has both.
ReviewReprocessesExactlyIncomplete ==
    [][(flow = "autodetect" /\ phase = "main" /\ phase' # "main"
          /\ ~autoDetectAbortRef) =>
              /\ (phase' = "review") = (Incomplete # {})
              /\ phase' = "review" =>
                    /\ {laneScenes'[l][1] : l \in DOMAIN laneScenes'} = Incomplete
                    /\ Len(laneScenes') = Cardinality(Incomplete)]_vars

\* A batch run has been started and has not shown its summary yet.
RunInProgress == phase \in {"main", "review"}

\* Attempts of a batch run are bounded, and a storyboard run that ended
\* without abort has sent every scene still without storyboard through the
\* review pass once and counts it in the failures of its summary.
RunIsBounded ==
    /\ \A s \in SceneIds : calls[s] <= maxRetries + 1 /\ reviewCalls[s] <= 1
    /\ \A l \in LaneIds : lanes[l].attempt <= maxRetries
    /\ (flow = "storyboard" /\ phase = "done" /\ ~summary.aborted) =>
          LET lacking == {s \in SceneIds : scenes[s].storyboardUrl = 0}
          IN /\ \A s \in lacking : reviewCalls[s] = 1
             /\ summary.fail >= Cardinality(lacking)

\* The review pass is not entered again, and nothing is dispatched once the
\* summary is shown.
RunEndsOnce ==
    /\ phase = "review" => phase' \in {"review", "done"}
    /\ phase = "done" =>
          /\ phase' = "done"
          /\ calls' = calls
          /\ reviewCalls' = reviewCalls
          /\ sbTasks' = sbTasks
          /\ adTasks' = adTasks
          /\ lanes' = lanes
          /\ summary' = summary

\* C20: provided every remote job eventually returns or fails, each batch run
\* (storyboards, videos, auto-detect) reaches its end-of-run summary; the
\* review pass runs at most once, a storyboard scene gets at most 3 main-sweep
\* attempts and 1 review attempt, a scene still without output after the
\* review pass is counted as failed, and nothing is dispatched afterwards.
BatchRunTerminates ==
    /\ RunInProgress ~> (phase = "done" /\ summary.shown)
    /\ []RunIsBounded
    /\ [][RunEndsOnce]_vars

\* C20 witness: a storyboard run that was not stopped has shown its summary;
\* one scene failed its three main-sweep attempts and its review attempt and
\* is counted in the failures.
RunEndedWithFinalFailure ==
    /\ flow = "storyboard"
    /\ phase = "done"
    /\ summary.shown /\ ~summary.aborted
    /\ \E s \in SceneIds :
          /\ calls[s] = maxRetries + 1
          /\ reviewCalls[s] = 1
          /\ scenes[s].storyboardUrl = 0
          /\ summary.fail >= 2

\* The timeout of a descriptor's kind: 60 s for a description, 180 s for a
\* character image, 300 s for a scene image.
KindTimeout(t) ==
    IF t.type = "desc" THEN 60000 ELSE IF t.id <= Len(characters) THEN 180000 ELSE 300000

Aged(t) == now - t.startedAt >= KindTimeout(t)

\* C21: a sweep tick removes from the store every descriptor whose age has
\* reached the timeout of its kind (storyboard 240 s, description 60 s,
\* character image 180 s, scene image 300 s) and clears the indicator of its
\* entity, whether or not its request ever came back, and it keeps every
\* younger descriptor.
SweepRemovesExactlyExpired ==
    [][/\ SettingsSweep =>
            \A t \in adTasks :
                IF Aged(t)
                THEN t \notin adTasks' /\ <<t.id, t.type>> \notin generatingIds'
                ELSE t \in adTasks'
       /\ StoryboardSweep =>
            \A i \in DOMAIN sbTasks :
                IF now - sbTasks[i].startedAt >= 240000
                THEN /\ ~InSeq(sbTasks', sbTasks[i])
                     /\ sbTasks[i].id \notin generatingScenes'
                ELSE InSeq(sbTasks', sbTasks[i])]_vars

\* A request is still in flight, and the sweep has removed its descriptor and
\* cleared its indicator.
SweptWhileInFlight ==
    /\ flow = "tasks"
    /\ reloads = 0
    /\ \E c \in entityCalls : /\ ~HasTask(adTasks, c.id, c.type)
                              /\ <<c.id, c.type>> \notin generatingIds
                              /\ now - c.startedAt >= KindTimeout(c)

\* C22: an indicator that a page load restored does not block a new dispatch
\* once the timeout of its kind has elapsed: the sweep tick that follows
\* clears it, so that the duplicate-call guard lets the entity through.
RestoredIndicatorUnblocks ==
    \A r \in {t \in restored : t.type = "image"} :
        (/\ <<r.id, r.type>> \in generatingIds
         /\ ~\E c \in entityCalls : c.id = r.id /\ c.type = r.type
         /\ Aged(r))
        => <<r.id, r.type>> \notin SweptIds(generatingIds, adTasks)

\* The descriptor ids of the storyboard store in the next state.
SbTaskIdsNext == {sbTasks'[i].id : i \in DOMAIN sbTasks'}

\* Lane l of a storyboard run: an attempt starts, returns and is followed by
\* the next attempt, or returns for good.
SbAttemptCycle(l) ==
    LET s == laneScenes[l][lanes[l].idx]
        starts_ == lanes[l].pc # "inflight" /\ lanes'[l].pc = "inflight"
        returns_ == lanes[l].pc = "inflight" /\ lanes'[l] # lanes[l]
        retries_ == returns_ /\ lanes'[l].pc = "inflight"
    IN /\ starts_ =>
             LET n == laneScenes'[l][lanes'[l].idx]
             IN /\ n \in SbTaskIdsNext /\ n \in generatingScenes'
                /\ calls'[n] + reviewCalls'[n] = calls[n] + reviewCalls[n] + 1
       /\ retries_ =>
             /\ lanes'[l].idx = lanes[l].idx /\ lanes'[l].attempt = lanes[l].attempt + 1
             /\ fails'[s] = fails[s] + 1
             /\ calls'[s] = calls[s] + 1
             /\ s \in SbTaskIdsNext /\ s \in generatingScenes'
       /\ (returns_ /\ ~retries_) => s \notin SbTaskIdsNext /\ s \notin generatingScenes'

\* C23: every storyboard attempt of a batch run writes the descriptor of its
\* scene when it starts and removes it when it ends, with success or with an
\* error; a scene that fails twice and then succeeds, 3 attempts being
\* allowed, has gone through exactly 3 such cycles, its outcome is success,
\* and neither a descriptor nor an indicator of it is left when it ends.
AttemptOwnsDescriptor ==
    [][flow = "storyboard" =>
          /\ \A l \in LaneIds : l \in DOMAIN lanes' => SbAttemptCycle(l)
          /\ \A s \in SceneIds :
                (/\ fails[s] = 2 /\ fails'[s] = 2
                 /\ scenes'[s].storyboardUrl # scenes[s].storyboardUrl
                 /\ phase = "main") =>
                    /\ calls'[s] = 3
                    /\ outcome'[s] = "success"
                    /\ s \notin SbTaskIdsNext /\ s \notin generatingScenes'
                    /\ successCount' = successCount + 1]_vars

\* C23 witness: a scene succeeded on its third attempt, and nothing of its
\* descriptor or indicator is left.
ThirdAttemptLeavesNoDescriptor ==
    /\ flow = "storyboard"
    /\ \E s \in SceneIds :
          /\ outcome[s] = "success" /\ fails[s] = 2 /\ calls[s] = 3
          /\ scenes[s].storyboardUrl # 0
          /\ s \notin SbTaskIds \cup generatingScenes

\* An orchestration run starts, a run ends.
RunStarts == phase = "idle" /\ phase' = "main"

RunEnds == phase \in {"main", "review"} /\ phase' = "done"

\* The cancellation flag of the run kind of this behaviour, in the next state.
StopRequestedNext ==
    CASE flow = "storyboard" -> stopStoryboardGenRef'
      [] flow = "video" -> stopVideoGenRef'
      [] flow = "autodetect" -> autoDetectAbortRef'
      [] OTHER -> FALSE

\* C24 as stated: a cancellation flag (storyboard, video, auto-detect) goes
\* back to false only on the step that starts a new run; from the moment it
\* is set until then it stays true.
FlagResetOnlyAtRunStart ==
    [][(StopRequested /\ ~StopRequestedNext) => RunStarts]_vars

\* C24 as amended: a new run starts with its flag false; a flag that is set
\* stays true while its run is in progress; it goes back to false only on the
\* step that starts a new run or, for the auto-detect flag, on the step that
\* ends the run.
FlagResetAtRunStartOrAutoDetectEnd ==
    [][/\ (StopRequested /\ ~StopRequestedNext) =>
             (RunStarts \/ (flow = "autodetect" /\ RunEnds))
       /\ RunStarts => ~StopRequestedNext]_vars

\* C24 witness: an auto-detect run that was aborted has ended, and its flag is
\* false again before any new run has started.
AbortedAutoDetectEndedWithFlagCleared ==
    /\ flow = "autodetect"
    /\ phase = "done"
    /\ summary.shown /\ summary.aborted
    /\ ~autoDetectAbortRef

\* C25: setting the storyboard stop flag aborts no request that was already
\* dispatched.  The step that sets the flag leaves every request in flight,
\* its descriptor and the scenes as they are; a request in flight while the
\* flag is set returns by itself, and when it succeeds its image becomes the
\* storyboard of the scene and the scene is counted as succeeded.
StopLeavesDispatchedJobs ==
    [][flow = "storyboard" =>
          /\ (~stopStoryboardGenRef /\ stopStoryboardGenRef') =>
                /\ lanes' = lanes
                /\ sbTasks' = sbTasks
                /\ generatingScenes' = generatingScenes
                /\ scenes' = scenes
          /\ stopStoryboardGenRef =>
                \A l \in LaneIds :
                    (lanes[l].pc = "inflight" /\ lanes'[l] # lanes[l]) =>
                        LET s == laneScenes[l][lanes[l].idx]
                        IN \/ /\ successCount' = successCount
                              /\ scenes' = scenes
                           \/ /\ successCount' = successCount + 1
                              /\ failCount' = failCount
                              /\ fails' = fails
                              /\ scenes'[s].storyboardUrl # 0
                              /\ scenes'[s].storyboardUrl # scenes[s].storyboardUrl
                              /\ failedIds' = failedIds]_vars

\* C25 witness: on the project of three scenes the run was stopped while the
\* first scene of the shared location was in flight (its lane never called
\* the second one); that request then succeeded and was merged.
StoppedJobMerged ==
    /\ flow = "storyboard"
    /\ Len(scenes) = 3
    /\ stopStoryboardGenRef
    /\ scenes[1].storyboardUrl # 0
    /\ outcome[1] = "success"
    /\ calls[2] = 0
    /\ lanes[1].pc = "done"

\* C26: a scene that exhausts its attempts does not halt the storyboard run.
\* Absent cancellation, the lane of the failed scene goes on to ask for a
\* slot for the next scene of its group and no other lane is stopped; when
\* the run ends every scene has been dispatched, every scene that ended the
\* main sweep is counted once as success or as failure, and the summary shows
\* the two counters.
FailedSceneDoesNotHaltRun ==
    [][(flow = "storyboard" /\ ~stopStoryboardGenRef) =>
          /\ \A l \in LaneIds :
                (/\ phase = "main"
                 /\ lanes[l].pc = "inflight"
                 /\ lanes'[l] # lanes[l]
                 /\ lanes'[l].pc # "inflight") =>
                    LET s == laneScenes[l][lanes[l].idx]
                    IN /\ outcome'[s] \in {"success", "exhausted"}
                       /\ successCount' + failCount' = successCount + failCount + 1
                       /\ (outcome'[s] = "exhausted") = (failCount' = failCount + 1)
                       /\ lanes'[l].idx = lanes[l].idx + 1
                       /\ lanes'[l].pc = IF lanes[l].idx < Len(laneScenes[l])
                                         THEN "acquired" ELSE "done"
                       /\ \A m \in LaneIds \ {l} :
                             lanes'[m] = lanes[m] \/ (lanes[m].pc = "waiting"
                                                      /\ lanes'[m].pc = "acquired")
          /\ (phase # "done" /\ phase' = "done") =>
                /\ \A s \in SceneIds : calls[s] >= 1 /\ outcome[s] \in {"success", "exhausted"}
                /\ summary' = [shown |-> TRUE, success |-> successCount,
                               fail |-> failCount, aborted |-> FALSE]
                /\ successCount >= Cardinality({s \in SceneIds : outcome[s] = "success"})
                /\ failCount >= Cardinality({s \in SceneIds : outcome[s] = "exhausted"})
                /\ successCount + failCount =
                      Len(scenes) + Cardinality({s \in SceneIds : reviewCalls[s] = 1})]_vars

\* C26 witness: the run has ended without cancellation; the first scene of
\* the shared location exhausted its attempts, the second scene of the same
\* group and the scene of the other group were generated afterwards, and the
\* summary reports successes and failures.
RunWentOnAfterExhaustedScene ==
    /\ flow = "storyboard"
    /\ Len(scenes) = 3
    /\ phase = "done"
    /\ ~summary.aborted
    /\ \E l \in LaneIds : laneScenes[l] = <<1, 2>>
    /\ outcome[1] = "exhausted" /\ fails[1] = 3
    /\ outcome[2] = "success" /\ outcome[3] = "success"
    /\ summary.success >= 2 /\ summary.fail >= 1

\* C27: while a bulk storyboard run is in progress a failing attempt raises
\* no error notification of its own, and a failing single-scene generation
\* that the user started raises exactly one.
BulkRunRaisesNoErrorToast ==
    [][/\ (flow = "storyboard" /\ isGeneratingAllStoryboards) =>
              errorToasts' = errorToasts
       /\ (/\ flow = "tasks"
           /\ \E c \in sbSingles : sbSingles' = sbSingles \ {c}
           /\ scenes' = scenes
           /\ reloads' = reloads) =>
              errorToasts' = errorToasts + 1]_vars

\* The callers that leave the queue of limiter n in this step.
ResumedFrom(n) == {l \in LaneIds : InSeq(sem[n].queue, l) /\ ~InSeq(sem'[n].queue, l)}

\* C28: a caller is suspended only when every slot of the limiter is taken;
\* a release resumes exactly one suspended caller, the one that has waited
\* longest, and hands it the slot; the callers behind it keep their order and
\* new callers queue up behind them.
SuspendedCallersResumeInOrder ==
    [][\A n \in SemNames :
          LET q == sem[n].queue
              q2 == sem'[n].queue
              k == Cardinality(ResumedFrom(n))
          IN /\ k <= 1
             /\ k = 1 => /\ ResumedFrom(n) = {Head(q)}
                         /\ lanes[Head(q)].pc = "waiting"
                         /\ lanes'[Head(q)].pc = "acquired"
                         /\ sem[n].current = SemMax(n)
                         /\ sem'[n].current = SemMax(n)
             /\ Len(q2) >= Len(q) - k
             /\ \A i \in 1..(Len(q) - k) : q2[i] = q[i + k]
             /\ \A i \in (Len(q) - k + 1)..Len(q2) :
                   /\ ~InSeq(q, q2[i])
                   /\ lanes'[q2[i]].pc = "waiting"
                   /\ sem'[n].current = SemMax(n)
                   /\ \A j \in (Len(q) - k + 1)..(i - 1) : q2[j] < q2[i]]_vars

\* C28 witness: both slots of the review limiter are taken, the caller that
\* was suspended first has been resumed by a release and the caller that was
\* suspended after it is still waiting.
FirstWaiterResumedFirst ==
    /\ flow = "storyboard"
    /\ phase = "review"
    /\ sem["review"].current = ReviewMax
    /\ sem["review"].queue = <<4>>
    /\ lanes[3].pc \in {"acquired", "inflight"}
    /\ lanes[4].pc = "waiting"
    /\ \E l \in {1, 2} : lanes[l].pc = "done"

\* The name s without its leading and trailing blanks, characterised
\* directly: the piece of s between two runs of blanks that neither starts
\* nor ends with a blank.
Trimmed(s) ==
    CHOOSE t \in {SubSeq(s, i, j) : i \in 1..(Len(s) + 1), j \in 0..Len(s)} :
        /\ \E i \in 1..(Len(s) + 1), j \in 0..Len(s) :
              /\ t = SubSeq(s, i, j)
              /\ i <= j + 1
              /\ \A k \in (1..(i - 1)) \cup ((j + 1)..Len(s)) : s[k] = " "
        /\ t # <<>> => t[1] # " " /\ t[Len(t)] # " "

\* The positions (group, index) at which scene s occurs in the partition.
PlacesOf(s) ==
    {p \in LaneIds \X (1..Len(scenes)) :
        p[2] <= Len(laneScenes[p[1]]) /\ laneScenes[p[1]][p[2]] = s}

\* C29: the partition at the start of a batch run places every scene in
\* exactly one group; two scenes share a group exactly when their trimmed
\* names are equal and not empty, so that a scene with an empty or blank name
\* is alone in its group; within a group the scenes are in the order of the
\* scene list; a group asks for its slot in the same way whether it has one
\* unnamed scene, one named scene or several.
GroupPartition ==
    (flow \in {"storyboard", "video"} /\ phase = "main") =>
        /\ \A l \in LaneIds : laneScenes[l] # <<>>
        /\ \A s \in SceneIds : Cardinality(PlacesOf(s)) = 1
        /\ \A s, t \in SceneIds :
              s # t =>
                 ((\E l \in LaneIds : InSeq(laneScenes[l], s) /\ InSeq(laneScenes[l], t))
                  <=> (/\ Trimmed(scenes[s].sceneName) # <<>>
                       /\ Trimmed(scenes[s].sceneName) = Trimmed(scenes[t].sceneName)))
        /\ \A s \in SceneIds :
              Trimmed(scenes[s].sceneName) = <<>> =>
                 \E l \in LaneIds : laneScenes[l] = <<s>>
        /\ \A l \in LaneIds : \A i, j \in 1..Len(laneScenes[l]) :
              i < j => laneScenes[l][i] < laneScenes[l][j]
        /\ \A l, m \in LaneIds : l < m => laneScenes[l][1] < laneScenes[m][1]
        /\ \A l \in LaneIds :
              lanes[l] = [pc |-> IF l <= MainMax THEN "acquired" ELSE "waiting",
                          idx |-> 1, attempt |-> 0]

\* C29 witness: the partition of three scenes named "a", blank and " a" has
\* put the first and the third in one group and the blank one alone.
BlankNameAloneTrimmedNamesTogether ==
    /\ flow = "storyboard"
    /\ phase = "main"
    /\ Len(scenes) = 3
    /\ scenes[1].sceneName = <<"a">>
    /\ scenes[2].sceneName = <<" ">>
    /\ scenes[3].sceneName = <<" ", "a">>
    /\ laneScenes = <<<<1, 3>>, <<2>>>>

\* The keys whose entry was written in this step, and those deleted by it.
WrittenKeys ==
    {k \in DOMAIN thumbs' : k \notin DOMAIN thumbs \/ thumbs'[k] # thumbs[k]}

DeletedKeys == DOMAIN thumbs \ DOMAIN thumbs'

\* C30: a step of the thumbnail cache writes at most one entry, stamped with
\* the current time.  Entries are deleted only by a write that takes the
\* store over MAX_CACHE_ENTRIES: it deletes as many as bring the count back
\* to the limit, every deleted entry is at most as recently used as every
\* entry that is kept (so an entry refreshed by a later read outlives them),
\* and the entry just written is kept.
EvictionKeepsRecentlyUsed ==
    [][flow = "thumbs" =>
          /\ Cardinality(WrittenKeys) <= 1
          /\ \A k \in WrittenKeys : thumbs'[k] = now
          /\ \A k \in DOMAIN thumbs' \ WrittenKeys : thumbs'[k] = thumbs[k]
          /\ Cardinality(DOMAIN thumbs') <= MAX_CACHE_ENTRIES
          /\ DeletedKeys # {} =>
                /\ \E k \in WrittenKeys : k \notin DOMAIN thumbs
                /\ Cardinality(DOMAIN thumbs) + 1 > MAX_CACHE_ENTRIES
                /\ Cardinality(DOMAIN thumbs') = MAX_CACHE_ENTRIES
                /\ \A d \in DeletedKeys : \A k \in DOMAIN thumbs' : thumbs[d] <= thumbs'[k]
          /\ DeletedKeys = {} =>
                Cardinality(DOMAIN thumbs') <= Cardinality(DOMAIN thumbs) + 1]_vars

\* C30 witness: in the store whose oldest entry was key 1, key 1 was read and
\* then a new thumbnail was written to the full store: key 2 was evicted, the
\* refreshed key 1 and the new entry are kept and the store is at its limit.
RefreshedEntryOutlivedEviction ==
    /\ flow = "thumbs"
    /\ Cardinality(DOMAIN thumbs) = MAX_CACHE_ENTRIES
    /\ MAX_CACHE_ENTRIES \in DOMAIN thumbs /\ thumbs[MAX_CACHE_ENTRIES] = 0 - 1
    /\ 1 \in DOMAIN thumbs /\ thumbs[1] >= 0
    /\ 2 \notin DOMAIN thumbs
    /\ 0 \in DOMAIN thumbs /\ thumbs[0] >= thumbs[1]

\* C31: a scene shown as preparing, queued or processing has work behind it:
\* its submission is in flight or a status check is scheduled for it.
NonTerminalStatusHasWork ==
    flow = "poll" =>
        \A s \in SceneIds :
            IsProcessing(scenes[s].videoStatus) =>
                \/ s \in submits
                \/ \E i \in DOMAIN polls : polls[i].scene = s /\ polls[i].scheduled

\* C32: in the main sweep of a batch storyboard run, when the request for the
\* shot at position i + 1 of a group is sent after the shot at position i
\* succeeded in this run, it carries the storyboard that shot i has now.
NextShotCarriesNewStoryboard ==
    [][flow = "storyboard" /\ phase = "main" =>
          \A l \in LaneIds :
              (/\ lanes[l].idx > 1
               /\ lanes[l].idx <= Len(laneScenes[l])
               /\ calls'[laneScenes[l][lanes[l].idx]] = calls[laneScenes[l][lanes[l].idx]] + 1
               /\ outcome[laneScenes[l][lanes[l].idx - 1]] = "success") =>
                  prevStoryboardSent'[laneScenes[l][lanes[l].idx]] =
                      scenes[laneScenes[l][lanes[l].idx - 1]].storyboardUrl]_vars

\* The poll loops of scene s whose next status check is scheduled.
ActivePolls(s) == {i \in DOMAIN polls : polls[i].scene = s /\ polls[i].scheduled}

\* C33: at most one poll loop is active per scene at any time, also when
\* the batch run and the per-scene button both start a job for the scene.
OnePollLoopPerScene ==
    \A s \in SceneIds : Cardinality(ActivePolls(s)) <= 1

\* C34: the summary of a batch storyboard run counts every dispatched scene
\* exactly once: the successes and the failures add up to the number of
\* scenes for which a generation was dispatched in the run.
SummaryCountsEachSceneOnce ==
    (flow = "storyboard" /\ phase = "done" /\ summary.shown) =>
        summary.success + summary.fail =
            Cardinality({s \in SceneIds : calls[s] + reviewCalls[s] >= 1})

\* The scenes with a storyboard generation in flight, for the batch run.
BatchInFlightScenes == {laneScenes[l][lanes[l].idx] : l \in InFlight}

\* C35: with the per-scene button used during a batch run, at most MainMax
\* storyboard generations are in flight in total and no scene has two
\* generations in flight at once.
SingleJobsWithinLimit ==
    flow = "sbrace" =>
        /\ Cardinality(InFlight) + Cardinality(sbSingles) <= MainMax
        /\ \A c \in sbSingles : c.scene \notin BatchInFlightScenes
        /\ \A c, d \in sbSingles : c.scene = d.scene => c = d

\* C36: every scheduled status check of a poll loop, before and after a
\* reload, is sent with the provider tag of the submission and so queries
\* the provider that accepted the job.
PollQueriesAcceptingProvider ==
    flow = "poll" =>
        \A i \in DOMAIN polls :
            polls[i].scheduled =>
                /\ polls[i].provider = videoTasks[polls[i].taskId]
                /\ QueriedProvider(polls[i]) = videoTasks[polls[i].taskId]

\* C37: while a storyboard request is in flight (it has not returned and its
\* abort timer has not fired) its scene keeps its descriptor and its
\* in-progress indicator.
InFlightStoryboardStaysMarked ==
    flow = "tasks" =>
        \A c \in sbSingles :
            /\ c.scene \in generatingScenes
            /\ c.scene \in SbTaskIds

\* C38: between operations an entity is in a generating set exactly if the
\* store holds a descriptor of that kind for it, for the settings panel and
\* for the storyboard step alike, right after a mount included.
IndicatorsMatchDescriptors ==
    flow = "tasks" =>
        /\ generatingIds = {<<t.id, t.type>> : t \in adTasks}
        /\ generatingScenes = SbTaskIds

\* C39: in handleAutoDetectAll the image request of an entity is sent only
\* after its description phase succeeded in the same pass; a description
\* phase that fails its 3 attempts adds exactly one to the failure count and
\* ends the work on the entity for that pass, with no image request sent.
ImageOnlyAfterDescription ==
    [][\A l \in LaneIds :
          (flow = "autodetect" /\ phase' = phase /\ l \in DOMAIN lanes') =>
              /\ (/\ lanes'[l].stage = "image"
                  /\ lanes'[l].pc = "inflight"
                  /\ lanes[l].pc # "inflight")
                 => lanes[l].descOutcome = "success"
              /\ (/\ lanes[l].descOutcome # "exhausted"
                  /\ lanes'[l].descOutcome = "exhausted")
                 => /\ lanes[l].stage = "desc"
                    /\ lanes[l].attempts = maxRetries + 1
                    /\ failCount' = failCount + 1
                    /\ lanes'[l].stage = "desc"
                    /\ lanes'[l].pc = "done"
              /\ lanes[l].descOutcome = "exhausted" => lanes'[l] = lanes[l]]_vars

ImageSentNextToExhaustedDescription ==
    /\ flow = "autodetect"
    /\ \E l \in LaneIds : /\ lanes[l].descOutcome = "exhausted"
                          /\ lanes[l].pc = "done"
                          /\ lanes[l].imgOutcome = "none"
    /\ \E l \in LaneIds : /\ lanes[l].descOutcome = "success"
                          /\ lanes[l].stage = "image"
                          /\ lanes[l].pc = "inflight"
    /\ failCount = 1

\* The urls a scene holds: the current one, if any, and those of the history.
UrlsOf(current, history) ==
    (IF current # 0 THEN {current} ELSE {}) \cup {history[k] : k \in DOMAIN history}

\* C40: restoreFromHistory loses no result, for storyboards and for videos:
\* the urls of the current result and of the history together are the same
\* set before and after restoring any history entry, the restored url is the
\* current one afterwards, and it is no longer in the history.
RestoreLosesNoResult ==
    [][\A s \in SceneIds :
          /\ \A j \in 1..Len(scenes[s].storyboardHistory) :
                RestoreStoryboard(s, j) =>
                    /\ scenes'[s].storyboardUrl = scenes[s].storyboardHistory[j]
                    /\ ~InSeq(scenes'[s].storyboardHistory, scenes'[s].storyboardUrl)
                    /\ UrlsOf(scenes'[s].storyboardUrl, scenes'[s].storyboardHistory)
                          = UrlsOf(scenes[s].storyboardUrl, scenes[s].storyboardHistory)
          /\ \A j \in 1..Len(scenes[s].videoHistory) :
                RestoreVideo(s, j) =>
                    /\ scenes'[s].videoUrl = scenes[s].videoHistory[j]
                    /\ ~InSeq(scenes'[s].videoHistory, scenes'[s].videoUrl)
                    /\ UrlsOf(scenes'[s].videoUrl, scenes'[s].videoHistory)
                          = UrlsOf(scenes[s].videoUrl, scenes[s].videoHistory)]_vars

OlderStoryboardAndVideoRestored ==
    /\ flow = "history"
    /\ Len(scenes) = 1
    /\ scenes[1].storyboardUrl = 1
    /\ UrlsOf(0, scenes[1].storyboardHistory) = {2, 3}
    /\ scenes[1].videoUrl = 2
    /\ 1 \in UrlsOf(0, scenes[1].videoHistory)
    /\ Len(scenes[1].videoHistory) = 2

====
